---- MODULE Spec2Model ----
(***************************************************************************)
(* A model of the Query Resolution Pipeline of argo_floatchat:             *)
(* RAGPipeline.process_query (pipeline/backend/app/services/               *)
(* rag_pipeline.py) with the SQL synthesizer, the query classifier and     *)
(* the LLM gateway it calls.  Text is modelled as text: queries, SQL       *)
(* statements and answers are strings, and the substring tests and         *)
(* regular expressions of the source are evaluated on them.                *)
(***************************************************************************)
EXTENDS Integers, Sequences, FiniteSets, TLC

VARIABLES
    scenario,       \* which invocations arrive: "single", "sequential" or "concurrent"
    rag_pipeline,   \* the attributes _sql_retrieval stores on the shared pipeline object
    memo,           \* the answer the environment has given to each call it has received
    faults,         \* how many of these answers are failures
    inv,            \* the invocations of process_query, in the order they arrived
    ready,          \* the event loop's queue of tasks that are ready to run
    running         \* the task that is running, or Idle

(***************************************************************************)
(* Python str and re, as far as the modelled code uses them.               *)
(***************************************************************************)

UpperAlpha == "ABCDEFGHIJKLMNOPQRSTUVWXYZ"
LowerAlpha == "abcdefghijklmnopqrstuvwxyz"
Digits == "0123456789"

CharAt(s, i) == SubSeq(s, i, i)

CharsOf(s) == {CharAt(s, i) : i \in 1..Len(s)}

UpperSet == CharsOf(UpperAlpha)
LowerSet == CharsOf(LowerAlpha)
DigitSet == CharsOf(Digits)
\* str.isspace / the regex class \s
SpaceSet == {" ", "\t", "\n", "\r", "\f"}
\* the regex class \w (ASCII part)
WordSet == UpperSet \cup LowerSet \cup DigitSet \cup {"_"}

LowerTab == [c \in UpperSet |->
               CharAt(LowerAlpha, CHOOSE i \in 1..26 : CharAt(UpperAlpha, i) = c)]
UpperTab == [c \in LowerSet |->
               CharAt(UpperAlpha, CHOOSE i \in 1..26 : CharAt(LowerAlpha, i) = c)]

LowerC(c) == IF c \in UpperSet THEN LowerTab[c] ELSE c
UpperC(c) == IF c \in LowerSet THEN UpperTab[c] ELSE c

SetMin(S) == CHOOSE e \in S : \A y \in S : e <= y
SetMax(S) == CHOOSE e \in S : \A y \in S : e >= y

\* Apply a character map to s[a..b]; divide and conquer keeps the recursion shallow.
RECURSIVE MapRange(_, _, _, _)
MapRange(s, a, b, up) ==
    IF a > b THEN ""
    ELSE IF a = b THEN (IF up THEN UpperC(CharAt(s, a)) ELSE LowerC(CharAt(s, a)))
    ELSE LET mid == (a + b) \div 2
         IN  MapRange(s, a, mid, up) \o MapRange(s, mid + 1, b, up)

\* str.lower() and str.upper()
Lower(s) == MapRange(s, 1, Len(s), FALSE)
Upper(s) == MapRange(s, 1, Len(s), TRUE)

\* w in s
Contains(s, w) ==
    \E i \in 1..(Len(s) - Len(w) + 1) : SubSeq(s, i, i + Len(w) - 1) = w

\* s.startswith(w)
StartsWith(s, w) == Len(w) <= Len(s) /\ SubSeq(s, 1, Len(w)) = w

\* s.find(w): the first index (1-based), 0 when absent
Find(s, w) ==
    LET at == {i \in 1..(Len(s) - Len(w) + 1) : SubSeq(s, i, i + Len(w) - 1) = w}
    IN  IF at = {} THEN 0 ELSE SetMin(at)

\* any(k in s for k in ks)
ContainsAny(s, ks) == \E k \in ks : Contains(s, k)

\* s.strip()
Strip(s) ==
    LET keep == {i \in 1..Len(s) : CharAt(s, i) \notin SpaceSet}
    IN  IF keep = {} THEN "" ELSE SubSeq(s, SetMin(keep), SetMax(keep))

\* s.replace(old, new), every non-overlapping occurrence from the left
RECURSIVE ReplaceFrom(_, _, _, _)
ReplaceFrom(s, old, new, from) ==
    LET at == {i \in from..(Len(s) - Len(old) + 1) : SubSeq(s, i, i + Len(old) - 1) = old}
    IN  IF at = {} THEN SubSeq(s, from, Len(s))
        ELSE LET i == SetMin(at)
             IN  SubSeq(s, from, i - 1) \o new \o ReplaceFrom(s, old, new, i + Len(old))

Replace(s, old, new) == ReplaceFrom(s, old, new, 1)

\* str(n) for an integer
RECURSIVE NatStr(_)
NatStr(n) == IF n < 10 THEN CharAt(Digits, n + 1)
             ELSE NatStr(n \div 10) \o CharAt(Digits, (n % 10) + 1)

IntStr(n) == IF n < 0 THEN "-" \o NatStr(-n) ELSE NatStr(n)

\* int(s) for a digit string
RECURSIVE StrNat(_)
StrNat(s) ==
    IF s = "" THEN 0
    ELSE StrNat(SubSeq(s, 1, Len(s) - 1)) * 10
         + ((CHOOSE i \in 1..10 : CharAt(Digits, i) = CharAt(s, Len(s))) - 1)

(***************************************************************************)
(* Regular expressions.  A pattern is a sequence of items; MatchFrom gives *)
(* the match Python's backtracking matcher prefers at a start position.    *)
(*   lit  a literal string                                                 *)
(*   rep  a character class repeated lo..hi times (hi = -1: unbounded),    *)
(*        greedy unless lazy                                               *)
(*   alt  ordered alternatives, each a pattern                             *)
(*   mark records the position (the boundary of a capture group)           *)
(*   wb   \b            end  $ (the end, or before a final newline)        *)
(* A class is [cs: characters, d: \d, s: \s, w: \w, any: .].               *)
(* Flags: ic = re.IGNORECASE, dotall = re.DOTALL.                          *)
(***************************************************************************)

Cls(chars, d, s, w, any) == [cs |-> chars, d |-> d, s |-> s, w |-> w, any |-> any]
ClsD == Cls({}, TRUE, FALSE, FALSE, FALSE)
ClsS == Cls({}, FALSE, TRUE, FALSE, FALSE)
ClsW == Cls({}, FALSE, FALSE, TRUE, FALSE)
ClsAny == Cls({}, FALSE, FALSE, FALSE, TRUE)
ClsOf(chars) == Cls(chars, FALSE, FALSE, FALSE, FALSE)

Lit(v) == [t |-> "lit", v |-> v]
Rep(c, lo, hi) == [t |-> "rep", c |-> c, lo |-> lo, hi |-> hi, lazy |-> FALSE]
RepLazy(c, lo, hi) == [t |-> "rep", c |-> c, lo |-> lo, hi |-> hi, lazy |-> TRUE]
One(c) == Rep(c, 1, 1)
Plus(c) == Rep(c, 1, -1)
Star(c) == Rep(c, 0, -1)
Opt(c) == Rep(c, 0, 1)
Alt(a) == [t |-> "alt", a |-> a]
Mark == [t |-> "mark"]
WB == [t |-> "wb"]
End == [t |-> "end"]

Flags(ic, dotall) == [ic |-> ic, dotall |-> dotall]
NoFlags == Flags(FALSE, FALSE)
IC == Flags(TRUE, FALSE)
ICDotAll == Flags(TRUE, TRUE)

InClass(c, cl, fl) ==
    \/ cl.any /\ (fl.dotall \/ c # "\n")
    \/ cl.d /\ c \in DigitSet
    \/ cl.s /\ c \in SpaceSet
    \/ cl.w /\ c \in WordSet
    \/ c \in cl.cs
    \/ fl.ic /\ (LowerC(c) \in cl.cs \/ UpperC(c) \in cl.cs)

\* the two halves of a case-folded text are the same
EqualHalves(folded, n) == SubSeq(folded, 1, n) = SubSeq(folded, n + 1, 2 * n)

LitAt(s, i, v, fl) ==
    /\ i + Len(v) - 1 <= Len(s)
    /\ IF fl.ic THEN EqualHalves(Lower(SubSeq(s, i, i + Len(v) - 1) \o v), Len(v))
       ELSE SubSeq(s, i, i + Len(v) - 1) = v

IsWordAt(s, i) == i >= 1 /\ i <= Len(s) /\ CharAt(s, i) \in WordSet

\* the number of characters of the class from position i on, at most hi (hi < 0: no limit)
RECURSIVE RunScan(_, _, _, _, _, _)
RunScan(s, i, n, cl, hi, fl) ==
    IF n = hi \/ i + n > Len(s) THEN n
    ELSE IF InClass(CharAt(s, i + n), cl, fl) THEN RunScan(s, i, n + 1, cl, hi, fl)
    ELSE n

RunLen(s, i, cl, hi, fl) ==
    IF cl.any /\ fl.dotall
    THEN (IF hi >= 0 /\ Len(s) - i + 1 > hi THEN hi ELSE Len(s) - i + 1)
    ELSE RunScan(s, i, 0, cl, hi, fl)

Fail == <<>>

\* <<marks..., end>> of the preferred match of items k.. of p at position i, or Fail.
\* A greedy repetition backtracks from the longest run downwards (TryRep), a lazy
\* one takes the shortest count after which the rest matches; TryAlt tries the
\* alternatives j.. in order.
RECURSIVE MatchFrom(_, _, _, _, _), TryRep(_, _, _, _, _, _, _), TryAlt(_, _, _, _, _, _)
MatchFrom(p, k, s, i, fl) ==
    IF k > Len(p) THEN <<i>>
    ELSE LET it == p[k] IN
      CASE it.t = "lit" ->
             IF LitAt(s, i, it.v, fl) THEN MatchFrom(p, k + 1, s, i + Len(it.v), fl)
             ELSE Fail
        [] it.t = "mark" ->
             LET r == MatchFrom(p, k + 1, s, i, fl)
             IN  IF r = Fail THEN Fail ELSE <<i>> \o r
        [] it.t = "wb" ->
             IF IsWordAt(s, i - 1) # IsWordAt(s, i) THEN MatchFrom(p, k + 1, s, i, fl)
             ELSE Fail
        [] it.t = "end" ->
             IF i = Len(s) + 1 \/ (i = Len(s) /\ CharAt(s, i) = "\n")
             THEN MatchFrom(p, k + 1, s, i, fl) ELSE Fail
        [] it.t = "rep" ->
             LET run == RunLen(s, i, it.c, it.hi, fl)
             IN  IF run < it.lo THEN Fail
                 ELSE IF it.lazy
                 THEN LET ok == {n \in it.lo..run : MatchFrom(p, k + 1, s, i + n, fl) # Fail}
                      IN  IF ok = {} THEN Fail
                          ELSE MatchFrom(p, k + 1, s, i + SetMin(ok), fl)
                 ELSE TryRep(p, k, s, i, run, it.lo, fl)
        [] it.t = "alt" -> TryAlt(p, k, s, i, 1, fl)

TryRep(p, k, s, i, n, lo, fl) ==
    LET r == MatchFrom(p, k + 1, s, i + n, fl)
    IN  IF r # Fail THEN r
        ELSE IF n = lo THEN Fail
        ELSE TryRep(p, k, s, i, n - 1, lo, fl)

TryAlt(p, k, s, i, j, fl) ==
    IF j > Len(p[k].a) THEN Fail
    ELSE LET r == MatchFrom(p[k].a[j] \o SubSeq(p, k + 1, Len(p)), 1, s, i, fl)
         IN  IF r # Fail THEN r ELSE TryAlt(p, k, s, i, j + 1, fl)

Regex(p, fl) == [p |-> p, fl |-> fl]

NoMatch == [start |-> 0, m |-> Fail]

\* of the attempts at every start position, the leftmost that matched
Leftmost(found) ==
    IF found = {} THEN NoMatch
    ELSE CHOOSE x \in found : \A y \in found : x.start <= y.start

\* the leftmost match at or after position from: [start, m] with
\* m = <<marks..., end>>; start = 0 when there is no match
Scan(re, s, from) ==
    Leftmost({x \in {[start |-> i, m |-> MatchFrom(re.p, 1, s, i, re.fl)] :
                        i \in from..(Len(s) + 1)} : x.m # Fail})

\* re.search(re, s)
Search(re, s) == Scan(re, s, 1)

\* re.search(re, s) is not None
Matches(re, s) == Search(re, s).start # 0

\* the text between marks a and b of a match (a capture group)
Group(s, mt, a, b) == SubSeq(s, mt.m[a], mt.m[b] - 1)

\* re.sub(re, repl, s): every non-overlapping match from the left is replaced;
\* after an empty match the next character is copied
RECURSIVE SubFrom(_, _, _, _)
SubRest(re, repl, s, from, i, e) ==
    SubSeq(s, from, i - 1) \o repl
    \o (IF e = i /\ i <= Len(s) THEN CharAt(s, i) ELSE "")
    \o SubFrom(re, repl, s, IF e = i THEN i + 1 ELSE e)

SubStep(re, repl, s, from, mt) ==
    IF mt.start = 0 THEN SubSeq(s, from, Len(s))
    ELSE SubRest(re, repl, s, from, mt.start, mt.m[Len(mt.m)])

SubFrom(re, repl, s, from) ==
    SubStep(re, repl, s, from, IF from > Len(s) + 1 THEN NoMatch ELSE Scan(re, s, from))

\* (the test on Len(s) makes TLC evaluate s before it descends into the match)
Sub(re, repl, s) == IF Len(s) >= 0 THEN SubFrom(re, repl, s, 1) ELSE s

\* re.findall(re, s) for a pattern with one group between marks 1 and 2
RECURSIVE FindAllFrom(_, _, _)
FindAllRest(re, s, i, m, e) ==
    <<SubSeq(s, m[1], m[2] - 1)>> \o FindAllFrom(re, s, IF e = i THEN i + 1 ELSE e)

FindAllStep(re, s, mt) ==
    IF mt.start = 0 THEN <<>>
    ELSE FindAllRest(re, s, mt.start, mt.m, mt.m[Len(mt.m)])

FindAllFrom(re, s, from) ==
    FindAllStep(re, s, IF from > Len(s) + 1 THEN NoMatch ELSE Scan(re, s, from))

FindAll(re, s) == FindAllFrom(re, s, 1)

(***************************************************************************)
(* IntelligentSQLGenerator (intelligent_sql_generator.py): the SQL text of *)
(* the direct shapes, character for character.                             *)
(***************************************************************************)

\* the f-string of lines 94-106
OperatingDurationSQL(comparison, seconds) ==
       "\n"
    \o "                        SELECT float_id,\n"
    \o "                               MIN(profile_date) as first_profile_date,\n"
    \o "                               MAX(profile_date) as last_profile_date,\n"
    \o "                               COUNT(*) as total_profiles,\n"
    \o "                               (MAX(profile_date) - MIN(profile_date)) as operating_duration\n"
    \o "                        FROM argo_profiles \n"
    \o "                        WHERE profile_date IS NOT NULL\n"
    \o "                        GROUP BY float_id\n"
    \o "                        HAVING EXTRACT(EPOCH FROM AGE(MAX(profile_date), MIN(profile_date))) " \o comparison \o " " \o seconds \o "\n"
    \o "                        ORDER BY operating_duration DESC\n"
    \o "                        LIMIT 100\n"
    \o "                        "

\* the f-string of lines 124-132
YearCountSQL(years_str) ==
       "\n"
    \o "                        SELECT EXTRACT(YEAR FROM profile_date) as year, \n"
    \o "                               COUNT(*) as count\n"
    \o "                        FROM argo_profiles \n"
    \o "                        WHERE profile_date IS NOT NULL\n"
    \o "                          AND EXTRACT(YEAR FROM profile_date) IN (" \o years_str \o ")\n"
    \o "                        GROUP BY EXTRACT(YEAR FROM profile_date)\n"
    \o "                        ORDER BY year\n"
    \o "                        "

\* the f-string of lines 156-182
NearestFloatsSQL(latitude, longitude) ==
       "\n"
    \o "                        SELECT DISTINCT\n"
    \o "                            p.float_id,\n"
    \o "                            p.latitude,\n"
    \o "                            p.longitude,\n"
    \o "                            p.profile_date,\n"
    \o "                            f.status,\n"
    \o "                            f.float_type,\n"
    \o "                            f.institution,\n"
    \o "                            MIN(6371 * acos(\n"
    \o "                                cos(radians(" \o latitude \o ")) * cos(radians(p.latitude)) * \n"
    \o "                                cos(radians(p.longitude) - radians(" \o longitude \o ")) + \n"
    \o "                                sin(radians(" \o latitude \o ")) * sin(radians(p.latitude))\n"
    \o "                            )) AS distance_km\n"
    \o "                        FROM argo_profiles p\n"
    \o "                        LEFT JOIN argo_floats f ON p.float_id = f.float_id\n"
    \o "                        WHERE p.latitude IS NOT NULL \n"
    \o "                          AND p.longitude IS NOT NULL\n"
    \o "                          AND (6371 * acos(\n"
    \o "                                cos(radians(" \o latitude \o ")) * cos(radians(p.latitude)) * \n"
    \o "                                cos(radians(p.longitude) - radians(" \o longitude \o ")) + \n"
    \o "                                sin(radians(" \o latitude \o ")) * sin(radians(p.latitude))\n"
    \o "                              )) <= 500\n"
    \o "                        GROUP BY p.float_id, p.latitude, p.longitude, p.profile_date, f.status, f.float_type, f.institution\n"
    \o "                        ORDER BY distance_km ASC\n"
    \o "                        LIMIT 10\n"
    \o "                        "

\* the f-string of lines 199-236
YearComparisonEquatorialSQL(year_a, year_b) ==
       "\n"
    \o "                    (SELECT \n"
    \o "                        EXTRACT(YEAR FROM profile_date) AS year,\n"
    \o "                        profile_id,\n"
    \o "                        float_id,\n"
    \o "                        latitude,\n"
    \o "                        longitude,\n"
    \o "                        profile_date,\n"
    \o "                        temperature[1] AS surface_temperature,\n"
    \o "                        salinity[1] AS surface_salinity,\n"
    \o "                        pressure[1] AS surface_pressure\n"
    \o "                    FROM argo_profiles\n"
    \o "                    WHERE EXTRACT(YEAR FROM profile_date) = " \o year_b \o "\n"
    \o "                    AND latitude BETWEEN -5 AND 5\n"
    \o "                    AND temperature IS NOT NULL \n"
    \o "                    AND salinity IS NOT NULL\n"
    \o "                    ORDER BY profile_date DESC\n"
    \o "                    )\n"
    \o "                    UNION ALL\n"
    \o "                    (SELECT \n"
    \o "                        EXTRACT(YEAR FROM profile_date) AS year,\n"
    \o "                        profile_id,\n"
    \o "                        float_id,\n"
    \o "                        latitude,\n"
    \o "                        longitude,\n"
    \o "                        profile_date,\n"
    \o "                        temperature[1] AS surface_temperature,\n"
    \o "                        salinity[1] AS surface_salinity,\n"
    \o "                        pressure[1] AS surface_pressure\n"
    \o "                    FROM argo_profiles\n"
    \o "                    WHERE EXTRACT(YEAR FROM profile_date) = " \o year_a \o "\n"
    \o "                    AND latitude BETWEEN -5 AND 5\n"
    \o "                    AND temperature IS NOT NULL \n"
    \o "                    AND salinity IS NOT NULL\n"
    \o "                    ORDER BY profile_date DESC\n"
    \o "                    )\n"
    \o "                    ORDER BY year DESC, profile_date DESC\n"
    \o "                    "

\* the f-string of lines 238-273
YearComparisonSQL(year_a, year_b) ==
       "\n"
    \o "                    (SELECT \n"
    \o "                        EXTRACT(YEAR FROM profile_date) AS year,\n"
    \o "                        profile_id,\n"
    \o "                        float_id,\n"
    \o "                        latitude,\n"
    \o "                        longitude,\n"
    \o "                        profile_date,\n"
    \o "                        temperature[1] AS surface_temperature,\n"
    \o "                        salinity[1] AS surface_salinity,\n"
    \o "                        pressure[1] AS surface_pressure\n"
    \o "                    FROM argo_profiles\n"
    \o "                    WHERE EXTRACT(YEAR FROM profile_date) = " \o year_b \o "\n"
    \o "                    AND temperature IS NOT NULL \n"
    \o "                    AND salinity IS NOT NULL\n"
    \o "                    ORDER BY profile_date DESC\n"
    \o "                    )\n"
    \o "                    UNION ALL\n"
    \o "                    (SELECT \n"
    \o "                        EXTRACT(YEAR FROM profile_date) AS year,\n"
    \o "                        profile_id,\n"
    \o "                        float_id,\n"
    \o "                        latitude,\n"
    \o "                        longitude,\n"
    \o "                        profile_date,\n"
    \o "                        temperature[1] AS surface_temperature,\n"
    \o "                        salinity[1] AS surface_salinity,\n"
    \o "                        pressure[1] AS surface_pressure\n"
    \o "                    FROM argo_profiles\n"
    \o "                    WHERE EXTRACT(YEAR FROM profile_date) = " \o year_a \o "\n"
    \o "                    AND temperature IS NOT NULL \n"
    \o "                    AND salinity IS NOT NULL\n"
    \o "                    ORDER BY profile_date DESC\n"
    \o "                    )\n"
    \o "                    ORDER BY year DESC, profile_date DESC\n"
    \o "                    "

\* the f-string of lines 304-310
GeographicSQL(lat_lo, lat_hi, lon_lo, lon_hi) ==
       "\n"
    \o "                SELECT * FROM argo_profiles \n"
    \o "                WHERE latitude BETWEEN " \o lat_lo \o " AND " \o lat_hi \o " \n"
    \o "                AND longitude BETWEEN " \o lon_lo \o " AND " \o lon_hi \o "\n"
    \o "                ORDER BY profile_date DESC \n"
    \o "                LIMIT 100\n"
    \o "                "

(***************************************************************************)
(* IntelligentSQLGenerator.generate_sql_from_query and its helpers.        *)
(***************************************************************************)

\* None, and the absence of a dict key read with .get()
None == "None"

\* sep.join(seq)
RECURSIVE Join(_, _)
Join(sep, seq) ==
    IF seq = <<>> THEN ""
    ELSE IF Len(seq) = 1 THEN seq[1]
    ELSE seq[1] \o sep \o Join(sep, Tail(seq))

\* s.split(sep) for a one-character sep
Split(s, sep) ==
    LET cuts == {i \in 1..Len(s) : CharAt(s, i) = sep}
        n == Cardinality(cuts)
        cut(k) == IF k = 0 THEN 0
                  ELSE IF k = n + 1 THEN Len(s) + 1
                  ELSE CHOOSE i \in cuts : Cardinality({j \in cuts : j < i}) = k - 1
    IN  [k \in 1..(n + 1) |-> SubSeq(s, cut(k - 1) + 1, cut(k) - 1)]

\* [x for x in seq if keep(x)]
Filter(seq, keep(_)) ==
    LET idx == {i \in DOMAIN seq : keep(seq[i])}
        nth(k) == CHOOSE i \in idx : Cardinality({j \in idx : j < i}) = k - 1
    IN  [k \in 1..Cardinality(idx) |-> seq[nth(k)]]

\* sorted(set)
RECURSIVE SortedSeq(_)
SortedSeq(S) == IF S = {} THEN <<>> ELSE <<SetMin(S)>> \o SortedSeq(S \ {SetMin(S)})

\* (\d+(?:\.\d+)?): a decimal number as a capture group
DecimalGroup == <<Mark, Plus(ClsD), Alt(<< <<Lit("."), Plus(ClsD)>>, <<>> >>), Mark>>

\* float(s) for s matching \d+(?:\.\d+)?, in hundredths.  The queries of the
\* model write at most two decimals, and those are exact in binary (.0 .25
\* .5 .75), so the arithmetic below is the float arithmetic of the code.
ParseFloat(s) ==
    LET dot == Find(s, ".")
        ip == IF dot = 0 THEN s ELSE SubSeq(s, 1, dot - 1)
        fp == IF dot = 0 THEN "" ELSE SubSeq(s, dot + 1, Len(s))
        f2 == SubSeq(fp \o "00", 1, 2)
    IN  StrNat(ip) * 100 + StrNat(f2)

\* str(x) of a float x given in hundredths: the shortest repr, with ".0" kept
FloatStr(c) ==
    LET a == IF c < 0 THEN -c ELSE c
        f == a % 100
        fs == IF f = 0 THEN "0"
              ELSE IF f % 10 = 0 THEN NatStr(f \div 10)
              ELSE IF f < 10 THEN "0" \o NatStr(f) ELSE NatStr(f)
    IN  (IF c < 0 THEN "-" ELSE "") \o NatStr(a \div 100) \o "." \o fs

\* line 71
operating_phrases == {"operating for", "been operating", "operating more than", "operating less than"}

\* line 78: (\d+)\s*years?
years_pattern == Regex(<<Mark, Plus(ClsD), Mark, Star(ClsS), Lit("year"), Opt(ClsOf({"s"}))>>, NoFlags)

\* line 116: \b(201[8-9]|202[0-5])\b
year_pattern ==
    Regex(<<WB, Mark,
            Alt(<< <<Lit("201"), One(ClsOf({"8", "9"}))>>,
                   <<Lit("202"), One(ClsOf({"0", "1", "2", "3", "4", "5"}))>> >>),
            Mark, WB>>, NoFlags)

\* line 142: (\d+(?:\.\d+)?)\s*°?\s*([NS])\s*,\s*(\d+(?:\.\d+)?)\s*°?\s*([EW])
coord_pattern ==
    Regex(DecimalGroup
          \o <<Star(ClsS), Opt(ClsOf({"°"})), Star(ClsS), Mark, One(ClsOf({"N", "S"})), Mark,
               Star(ClsS), Lit(","), Star(ClsS)>>
          \o DecimalGroup
          \o <<Star(ClsS), Opt(ClsOf({"°"})), Star(ClsS), Mark, One(ClsOf({"E", "W"})), Mark>>,
          IC)

\* line 190: \b(19\d{2}|20\d{2})\b
year_matches_pattern ==
    Regex(<<WB, Mark,
            Alt(<< <<Lit("19"), Rep(ClsD, 2, 2)>>, <<Lit("20"), Rep(ClsD, 2, 2)>> >>),
            Mark, WB>>, NoFlags)

\* [°\s]
ClsDegSpace == Cls({"°"}, FALSE, TRUE, FALSE, FALSE)

\* lines 283-286
coordinate_patterns ==
    << Regex(DecimalGroup
             \o <<Star(ClsDegSpace), Mark, One(ClsOf({"N", "S"})), Mark,
                  Star(ClsS), Opt(ClsOf({","})), Star(ClsS)>>
             \o DecimalGroup
             \o <<Star(ClsDegSpace), Mark, One(ClsOf({"E", "W"})), Mark>>, IC),
       Regex(DecimalGroup
             \o <<Star(ClsS), Lit("degree"), Opt(ClsOf({"s"})), Star(ClsS),
                  Mark, One(ClsOf({"N", "S"})), Mark,
                  Star(ClsS), Opt(ClsOf({","})), Star(ClsS)>>
             \o DecimalGroup
             \o <<Star(ClsS), Lit("degree"), Opt(ClsOf({"s"})), Star(ClsS),
                  Mark, One(ClsOf({"E", "W"})), Mark>>, IC) >>

\* line 399: \d+[°\s]*[NS]
fallback_coord_pattern ==
    Regex(<<Plus(ClsD), Star(ClsDegSpace), One(ClsOf({"N", "S"}))>>, NoFlags)

\* lines 470 and 484
array_columns ==
    <<"temperature", "salinity", "pressure", "depth", "dissolved_oxygen",
      "ph_in_situ", "nitrate", "chlorophyll_a">>

\* The markdown code fence of lines 438-439.  A TLA+ string cannot hold the
\* back-quote character, so "~" stands for it in every text of the model.
Fence == "~~~"

\* re.sub with each rule [re, repl] in turn, from rule k on
RECURSIVE SubAll(_, _, _)
SubNext(rules, k, s) == IF Len(s) >= 0 THEN SubAll(rules, k, s) ELSE s

SubAll(rules, k, s) ==
    IF k > Len(rules) THEN s
    ELSE SubNext(rules, k + 1, Sub(rules[k].re, rules[k].repl, s))

\* lines 438-439
fence_rules ==
    << [re |-> Regex(<<Lit(Fence \o "sql"), Star(ClsS), Opt(ClsOf({"\n"}))>>, NoFlags), repl |-> ""],
       [re |-> Regex(<<Lit(Fence), Star(ClsS), End>>, NoFlags), repl |-> ""] >>

StripEach(lines) == [k \in DOMAIN lines |-> Strip(lines[k])]
NonEmpty(line) == line # ""
NotComment(line) == ~StartsWith(line, "--")

\* lines 435-445
_clean_sql_response(response) ==
    Strip(Join(" ", Filter(Filter(StripEach(Split(SubAll(fence_rules, 1, response), "\n")),
                                  NonEmpty),
                           NotComment)))

\* lines 486-494, one column
FixColumn(col) ==
    << [re |-> Regex(<<Lit("avg(" \o col \o ")")>>, IC), repl |-> "AVG(" \o col \o "[1])"],
       [re |-> Regex(<<Lit("sum(" \o col \o ")")>>, IC), repl |-> "SUM(" \o col \o "[1])"],
       [re |-> Regex(<<Lit("min(" \o col \o ")")>>, IC), repl |-> "MIN(" \o col \o "[1])"],
       [re |-> Regex(<<Lit("max(" \o col \o ")")>>, IC), repl |-> "MAX(" \o col \o "[1])"] >>

\* lines 486-494: the substitutions of the loop over the columns, from column k on
RECURSIVE FixColumns(_)
FixColumns(k) ==
    IF k > Len(array_columns) THEN <<>>
    ELSE FixColumn(array_columns[k]) \o FixColumns(k + 1)

\* lines 479-496
_fix_array_aggregation(sql) == SubAll(FixColumns(1), 1, sql)

ClsLetters == ClsOf(UpperSet \cup LowerSet \cup {"_"})

\* (AVG|SUM|MIN|MAX)\(T\d+\.temperature\)
TNum(fn) == Regex(<<Lit(fn \o "(T"), Plus(ClsD), Lit(".temperature)")>>, IC)

\* lines 502-507
temperature_rules ==
    << [re |-> TNum("AVG"), repl |-> "AVG(T1.temperature[1])"],
       [re |-> Regex(<<Lit("AVG("), Plus(ClsLetters), Lit(".temperature)")>>, IC),
        repl |-> "AVG(temperature[1])"],
       [re |-> TNum("SUM"), repl |-> "SUM(T1.temperature[1])"],
       [re |-> TNum("MIN"), repl |-> "MIN(T1.temperature[1])"],
       [re |-> TNum("MAX"), repl |-> "MAX(T1.temperature[1])"] >>

\* lines 498-509
_fix_temperature_array_issue(sql) == SubAll(temperature_rules, 1, sql)

\* line 423
location_keywords ==
    {"location", "coordinate", "latitude", "longitude", "equator", "near",
     "trajectory", "trajectories"}

\* lines 417-433
_fix_table_selection(sql, user_query) ==
    IF ContainsAny(Lower(user_query), location_keywords)
       /\ Contains(Lower(sql), "from argo_floats")
    THEN Replace(Replace(sql, "FROM argo_floats", "FROM argo_profiles"),
                 "SELECT float_id, latitude, longitude",
                 "SELECT profile_id, float_id, latitude, longitude, profile_date")
    ELSE sql

\* line 465
dangerous == {"drop", "delete", "insert", "update", "alter", "create"}

_validate_sql_no_keyword_check(sql) ==
    LET sql_lower == Lower(sql)
    IN  /\ StartsWith(Strip(sql_lower), "select")
        /\ Contains(sql_lower, "from")
        /\ ContainsAny(sql_lower, {"argo_profiles", "argo_floats"})
        /\ \A k \in 1..Len(array_columns) :
              /\ ~Contains(sql_lower, "avg(" \o array_columns[k] \o ")")
              /\ ~Contains(sql_lower, "sum(" \o array_columns[k] \o ")")

\* lines 447-477
_validate_sql(sql) ==
    LET sql_lower == Lower(sql)
    IN  /\ StartsWith(Strip(sql_lower), "select")
        /\ Contains(sql_lower, "from")
        /\ ContainsAny(sql_lower, {"argo_profiles", "argo_floats"})
        /\ ~ContainsAny(sql_lower, dangerous)
        /\ \A k \in 1..Len(array_columns) :
              /\ ~Contains(sql_lower, "avg(" \o array_columns[k] \o ")")
              /\ ~Contains(sql_lower, "sum(" \o array_columns[k] \o ")")

\* The outcome of one call of an external collaborator: a value, or an exception
\* with its message.
Returned(v) == [ok |-> TRUE, v |-> v]
Raised(msg) == [ok |-> FALSE, e |-> msg]

\* lines 93-111: the result dict of a direct shape
DirectResult(sql, method) ==
    [sql_query |-> sql, generation_method |-> method, error |-> None, llm_called |-> FALSE]

\* lines 390-415: the except branch
FallbackResult(user_query, msg, called) ==
    IF \/ Contains(Lower(user_query), "coordinate")
       \/ Contains(Lower(user_query), "near")
       \/ Matches(fallback_coord_pattern, user_query)
    THEN [sql_query |-> "SELECT COUNT(*) FROM argo_profiles WHERE latitude IS NOT NULL AND longitude IS NOT NULL",
          generation_method |-> None, error |-> msg, llm_called |-> called]
    ELSE [sql_query |-> "SELECT COUNT(*) FROM argo_profiles LIMIT 10",
          generation_method |-> None, error |-> msg, llm_called |-> called]

\* lines 377-388
Validated(user_query, sql_query) ==
    IF _validate_sql(sql_query)
    THEN [sql_query |-> sql_query, generation_method |-> "intelligent_llm",
          error |-> None, llm_called |-> TRUE]
    ELSE FallbackResult(user_query, "Generated invalid SQL: " \o sql_query, TRUE)

\* lines 356-388: the LLM branch; llm is the outcome of multi_llm_client.generate_response
LLMResult(user_query, llm) ==
    IF ~llm.ok THEN FallbackResult(user_query, llm.e, TRUE)
    ELSE Validated(user_query,
                   _fix_table_selection(
                       _fix_temperature_array_issue(
                           _fix_array_aggregation(_clean_sql_response(llm.v))),
                       user_query))

\* A direct shape that does not apply
NotTaken == [sql_query |-> "", generation_method |-> None, error |-> None, llm_called |-> FALSE]

\* lines 83-91
OperatingComparison(lq) ==
    IF Contains(lq, "more than") \/ Contains(lq, "over") THEN ">"
    ELSE IF Contains(lq, "less than") \/ Contains(lq, "under") THEN "<"
    ELSE ">="

\* lines 76-111
OperatingDurationTaken(lq, years_match) ==
    IF ContainsAny(lq, operating_phrases) /\ years_match.start # 0
    THEN DirectResult(OperatingDurationSQL(
                          OperatingComparison(lq),
                          IntStr(StrNat(Group(lq, years_match, 1, 2)) * 31557600) \o ".0"),
                      "operating_duration_direct")
    ELSE NotTaken

\* lines 70-111
OperatingDurationShape(user_query) ==
    OperatingDurationTaken(Lower(user_query), Search(years_pattern, Lower(user_query)))

\* lines 115-137
YearCountTaken(lq, user_query, years) ==
    IF /\ ContainsAny(lq, {"how many", "number of profiles", "profiles in"})
       /\ ContainsAny(user_query, {"2018", "2019", "2020", "2021", "2022", "2023", "2024", "2025"})
       /\ years # <<>>
    THEN DirectResult(YearCountSQL(Join(", ", [k \in DOMAIN years |-> IntStr(StrNat(years[k]))])),
                      "year_count_direct")
    ELSE NotTaken

\* lines 113-137
YearCountShape(user_query) ==
    YearCountTaken(Lower(user_query), user_query, FindAll(year_pattern, user_query))

\* lines 150-153: the number as Python prints it, negated for S and W
Signed(val, positive) == (IF positive THEN "" ELSE "-") \o FloatStr(val)

\* lines 141-187
NearestFloatsTaken(lq, user_query, coord_match) ==
    IF /\ ContainsAny(lq, {"nearest", "closest", "near"})
       /\ ContainsAny(lq, {"°", "degrees", "north", "south", "east", "west"})
       /\ coord_match.start # 0
    THEN DirectResult(NearestFloatsSQL(
                          Signed(ParseFloat(Group(user_query, coord_match, 1, 2)),
                                 Upper(Group(user_query, coord_match, 3, 4)) = "N"),
                          Signed(ParseFloat(Group(user_query, coord_match, 5, 6)),
                                 Upper(Group(user_query, coord_match, 7, 8)) = "E")),
                      "nearest_floats_direct")
    ELSE NotTaken

\* lines 139-187
NearestFloatsShape(user_query) ==
    NearestFloatsTaken(Lower(user_query), user_query, Search(coord_pattern, user_query))

\* line 191: sorted(list(set(year_matches)))
UniqueYears(year_matches) == SortedSeq({StrNat(year_matches[k]) : k \in DOMAIN year_matches})

\* lines 192-280
YearComparisonTaken(lq, unique_years) ==
    IF Len(unique_years) >= 2
       /\ ContainsAny(lq, {"compare", "versus", "vs", "compare between"})
    THEN DirectResult(
             Strip(IF ContainsAny(lq, {"equator", "equatorial", "near the equator"})
                   THEN YearComparisonEquatorialSQL(IntStr(unique_years[1]), IntStr(unique_years[2]))
                   ELSE YearComparisonSQL(IntStr(unique_years[1]), IntStr(unique_years[2]))),
             "year_comparison_direct")
    ELSE NotTaken

\* lines 189-280
YearComparisonShape(user_query) ==
    YearComparisonTaken(Lower(user_query),
                        UniqueYears(FindAll(year_matches_pattern, user_query)))

\* lines 288-292: the match of the first pattern, from pattern k on, that matches
RECURSIVE SearchAny(_, _, _)
SearchAnyStep(patterns, k, s, mt) ==
    IF mt.start # 0 THEN mt ELSE SearchAny(patterns, k + 1, s)

SearchAny(patterns, k, s) ==
    IF k > Len(patterns) THEN NoMatch
    ELSE SearchAnyStep(patterns, k, s, Search(patterns[k], s))

\* lines 304-318: the box of one degree around the point (in hundredths)
GeographicBox(lat, lon) ==
    DirectResult(Strip(GeographicSQL(FloatStr(lat - 100), FloatStr(lat + 100),
                                     FloatStr(lon - 100), FloatStr(lon + 100))),
                 "geographic_direct")

\* lines 298-302
SignedValue(val, positive) == IF positive THEN val ELSE -val

\* lines 294-318
GeographicTaken(user_query, coord_match) ==
    IF coord_match.start # 0
    THEN GeographicBox(SignedValue(ParseFloat(Group(user_query, coord_match, 1, 2)),
                                   Group(user_query, coord_match, 3, 4) = "N"),
                       SignedValue(ParseFloat(Group(user_query, coord_match, 5, 6)),
                                   Group(user_query, coord_match, 7, 8) = "E"))
    ELSE NotTaken

\* lines 282-318
GeographicShape(user_query) ==
    GeographicTaken(user_query, SearchAny(coordinate_patterns, 1, user_query))

\* lines 70-318: the direct shapes in the order the code tries them
Shape(k, user_query) ==
    CASE k = 1 -> OperatingDurationShape(user_query)
      [] k = 2 -> YearCountShape(user_query)
      [] k = 3 -> NearestFloatsShape(user_query)
      [] k = 4 -> YearComparisonShape(user_query)
      [] k = 5 -> GeographicShape(user_query)

\* the result of the first shape, from shape k on, that applies
RECURSIVE FirstShape(_, _)
ShapeOr(k, user_query, result) ==
    IF result # NotTaken THEN result ELSE FirstShape(k + 1, user_query)

FirstShape(k, user_query) ==
    IF k > 5 THEN NotTaken ELSE ShapeOr(k, user_query, Shape(k, user_query))

\* lines 63-415: whether the LLM is asked for the statement
NeedsLLM(user_query) == FirstShape(1, user_query) = NotTaken

\* lines 320-388
DirectOr(user_query, llm, direct) ==
    IF direct # NotTaken THEN direct ELSE LLMResult(user_query, llm)

\* lines 63-415
generate_sql_from_query(user_query, llm) ==
    DirectOr(user_query, llm, FirstShape(1, user_query))

(***************************************************************************)
(* QueryClassifier (query_classifier.py).  Confidences are in hundredths.  *)
(***************************************************************************)

SQL_RETRIEVAL == "sql_retrieval"
VECTOR_RETRIEVAL == "vector_retrieval"
HYBRID_RETRIEVAL == "hybrid_retrieval"

\* lines 19-23
sql_keywords ==
    {"show", "get", "find", "retrieve", "extract", "list", "count", "filter", "where",
     "between", "greater than", "less than", "exact", "specific", "precise", "data",
     "values", "measurements"}

\* lines 25-29
vector_keywords ==
    {"summarize", "describe", "explain", "patterns", "trends", "characteristics",
     "overview", "general", "typical", "average", "variations", "changes", "analysis",
     "insights", "understand"}

\* lines 31-34
hybrid_keywords ==
    {"compare", "analyze", "relationship", "correlation", "impact", "influence",
     "effect", "difference", "similar", "contrast"}

\* a pattern of literal words separated by \s+
Words(ws) ==
    IF Len(ws) = 1 THEN <<Lit(ws[1])>>
    ELSE IF Len(ws) = 2 THEN <<Lit(ws[1]), Plus(ClsS), Lit(ws[2])>>
    ELSE <<Lit(ws[1]), Plus(ClsS), Lit(ws[2]), Plus(ClsS), Lit(ws[3])>>

\* (\d+\.?\d*)
NumberGroup == <<Mark, Plus(ClsD), Opt(ClsOf({"."})), Star(ClsD), Mark>>

\* (\w+\s+\d{4})
MonthYearGroup == <<Mark, Plus(ClsW), Plus(ClsS), Rep(ClsD, 4, 4), Mark>>

\* (days?|weeks?|months?|years?)
UnitGroup ==
    <<Mark,
      Alt(<< <<Lit("day"), Opt(ClsOf({"s"}))>>, <<Lit("week"), Opt(ClsOf({"s"}))>>,
             <<Lit("month"), Opt(ClsOf({"s"}))>>, <<Lit("year"), Opt(ClsOf({"s"}))>> >>),
      Mark>>

\* lines 37-45
location_patterns ==
    << Regex(<<Lit("near"), Plus(ClsS), Alt(<< <<Lit("the"), Plus(ClsS)>>, <<>> >>), Lit("equator")>>, NoFlags),
       Regex(<<Lit("in"), Plus(ClsS), Lit("the"), Plus(ClsS), Mark,
               Alt(<< <<Plus(ClsW), Plus(ClsS), Plus(ClsW)>>, <<Plus(ClsW)>> >>), Mark,
               Plus(ClsS), Alt(<< <<Lit("ocean")>>, <<Lit("sea")>> >>)>>, NoFlags),
       Regex(<<Lit("around"), Plus(ClsS)>> \o NumberGroup
             \o <<Star(ClsDegSpace), One(ClsOf({"N", "S"})), Star(ClsS), Opt(ClsOf({","})), Star(ClsS)>>
             \o NumberGroup \o <<Star(ClsDegSpace), One(ClsOf({"E", "W"}))>>, NoFlags),
       Regex(<<Lit("latitude"), Plus(ClsS)>> \o NumberGroup, NoFlags),
       Regex(<<Lit("longitude"), Plus(ClsS)>> \o NumberGroup, NoFlags),
       Regex(Words(<<"arabian", "sea">>), NoFlags),
       Regex(Words(<<"bay", "of", "bengal">>), NoFlags),
       Regex(Words(<<"indian", "ocean">>), NoFlags),
       Regex(Words(<<"pacific", "ocean">>), NoFlags),
       Regex(Words(<<"atlantic", "ocean">>), NoFlags),
       Regex(Words(<<"southern", "ocean">>), NoFlags) >>

\* lines 48-55
date_patterns ==
    << Regex(<<Lit("in"), Plus(ClsS)>> \o MonthYearGroup, NoFlags),
       Regex(<<Mark, Rep(ClsD, 4, 4), Mark, Lit("-"), Mark, Rep(ClsD, 1, 2), Mark, Lit("-"),
               Mark, Rep(ClsD, 1, 2), Mark>>, NoFlags),
       Regex(<<Lit("last"), Plus(ClsS), Mark, Plus(ClsD), Mark, Plus(ClsS)>> \o UnitGroup, NoFlags),
       Regex(<<Lit("past"), Plus(ClsS), Mark, Plus(ClsD), Mark, Plus(ClsS)>> \o UnitGroup, NoFlags),
       Regex(<<Lit("since"), Plus(ClsS), Mark,
               Alt(<< <<Plus(ClsW), Plus(ClsS), Rep(ClsD, 4, 4)>>, <<Rep(ClsD, 4, 4)>> >>), Mark>>, NoFlags),
       Regex(<<Lit("between"), Plus(ClsS)>> \o MonthYearGroup
             \o <<Plus(ClsS), Lit("and"), Plus(ClsS)>> \o MonthYearGroup, NoFlags) >>

\* an alternation of literals, lit1|lit2|...
AnyOf(lits) == Regex(<<Alt([k \in DOMAIN lits |-> <<Lit(lits[k])>>])>>, NoFlags)

\* lines 58-67, in dict order
parameter_patterns ==
    << [param |-> "temperature", pattern |-> AnyOf(<<"temperature", "temp", "thermal">>)],
       [param |-> "salinity", pattern |-> AnyOf(<<"salinity", "salt", "halocline">>)],
       [param |-> "dissolved_oxygen",
        pattern |-> Regex(<<Alt(<< Words(<<"dissolved", "oxygen">>), <<Lit("oxygen")>>,
                                   <<Lit("o2")>>, <<Lit("do")>> >>)>>, NoFlags)],
       [param |-> "ph", pattern |-> AnyOf(<<"ph", "acidity", "alkalinity">>)],
       [param |-> "nitrate", pattern |-> AnyOf(<<"nitrate", "nitrogen", "no3">>)],
       [param |-> "chlorophyll", pattern |-> AnyOf(<<"chlorophyll", "chl", "phytoplankton", "algae">>)],
       [param |-> "pressure", pattern |-> AnyOf(<<"pressure", "depth", "deep">>)],
       [param |-> "bgc", pattern |-> AnyOf(<<"bgc", "biogeochemical", "biochemical", "bio">>)] >>

\* any(re.search(pattern, s) for pattern in patterns)
MatchesAny(patterns, s) == \E k \in DOMAIN patterns : Matches(patterns[k], s)

\* coordinates?
Coordinates == <<Lit("coordinate"), Opt(ClsOf({"s"}))>>
\* profiles?
Profiles == <<Lit("profile"), Opt(ClsOf({"s"}))>>
\* \d+[°\s]*[NS]
DegreesNS == <<Plus(ClsD), Star(ClsDegSpace), One(ClsOf({"N", "S"}))>>

\* lines 330-339
_detect_geographic_sql_query(query) ==
    MatchesAny(
        << Regex(<<Lit("near"), Plus(ClsS)>> \o Coordinates \o <<Plus(ClsS)>> \o DegreesNS, NoFlags),
           Regex(Profiles \o <<Plus(ClsS), Lit("near"), Plus(ClsS), Plus(ClsD)>>, NoFlags),
           Regex(<<Lit("find"), Plus(ClsS)>> \o Profiles \o <<Plus(ClsS), Lit("near")>>, NoFlags),
           Regex(Words(<<"latitude", "between">>), NoFlags),
           Regex(Words(<<"longitude", "between">>), NoFlags) >>,
        Lower(query))

\* lines 341-355
_is_geographic_query(query) ==
    MatchesAny(
        << Regex(<<Lit("near"), Plus(ClsS)>> \o Coordinates, NoFlags),
           Regex(Coordinates \o <<Plus(ClsS)>> \o DegreesNS, NoFlags),
           Regex(Profiles \o <<Plus(ClsS), Lit("near"), Plus(ClsS), Plus(ClsD)>>, NoFlags),
           Regex(<<Lit("find"), Plus(ClsS)>> \o Profiles \o <<Plus(ClsS), Lit("near")>>, NoFlags),
           Regex(<<Lit("around"), Plus(ClsS)>> \o DegreesNS, NoFlags),
           Regex(<<Lit("latitude"), Star(ClsAny), Lit("longitude")>>, NoFlags),
           Regex(DegreesNS \o <<Star(ClsAny), Plus(ClsD), Star(ClsDegSpace), One(ClsOf({"E", "W"}))>>,
                 NoFlags) >>,
        Lower(query))

\* sum(1 for keyword in keywords if keyword in query)
KeywordScore(keywords, query) == Cardinality({k \in keywords : Contains(query, k)})

Min2(a, b) == IF a <= b THEN a ELSE b
Max2(a, b) == IF a >= b THEN a ELSE b

\* lines 120-176
_rule_based_classification(query) ==
    LET sql_score ==
            KeywordScore(sql_keywords, query)
            + (IF ContainsAny(query, {"show me", "get me", "find all", "list all"}) THEN 2 ELSE 0)
            + (IF Matches(Regex(<<WB, Plus(ClsD), WB>>, NoFlags), query) THEN 1 ELSE 0)
            + (IF MatchesAny(location_patterns, query) THEN 1 ELSE 0)
            + (IF MatchesAny(date_patterns, query) THEN 1 ELSE 0)
        vector_score == KeywordScore(vector_keywords, query)
        hybrid_score == KeywordScore(hybrid_keywords, query)
        max_score == Max2(sql_score, Max2(vector_score, hybrid_score))
    IN  IF max_score = 0 THEN [query_type |-> VECTOR_RETRIEVAL, confidence |-> 50]
        ELSE IF sql_score = max_score
        THEN [query_type |-> SQL_RETRIEVAL, confidence |-> Min2(90, 60 + sql_score * 10)]
        ELSE IF hybrid_score = max_score
        THEN [query_type |-> HYBRID_RETRIEVAL, confidence |-> Min2(90, 60 + hybrid_score * 10)]
        ELSE [query_type |-> VECTOR_RETRIEVAL, confidence |-> Min2(90, 60 + vector_score * 10)]

\* lines 221-286: the entities the pipeline reads afterwards: 'parameters',
\* 'regions' (which no pattern of the classifier fills), and whether
\* 'locations' and 'dates' are present, that is, non-empty
_extract_entities(query) ==
    LET IsNamed(p) == Matches(p.pattern, Lower(query))
        named == Filter(parameter_patterns, IsNamed)
    IN  [parameters |-> [k \in DOMAIN named |-> named[k].param], regions |-> <<>>,
         locations |-> MatchesAny(location_patterns, Lower(query)),
         dates |-> MatchesAny(date_patterns, Lower(query))]

\* lines 178-219; llm_result.query_type and .confidence are None when the key is absent
_combine_classifications(rule_result, llm_result, original_query) ==
    LET entities == _extract_entities(original_query)
        merged == [parameters |-> IF entities.parameters = <<>>
                                  THEN llm_result.extracted_entities.parameters
                                  ELSE entities.parameters,
                   regions |-> llm_result.extracted_entities.regions,
                   locations |-> entities.locations,
                   dates |-> entities.dates]
        rule_type == rule_result.query_type
        llm_type == IF llm_result.query_type = None THEN VECTOR_RETRIEVAL ELSE llm_result.query_type
        llm_confidence == IF llm_result.has_confidence THEN llm_result.confidence ELSE 50
    IN  IF rule_type = llm_type
        THEN [query_type |-> rule_type,
              confidence |-> Max2(rule_result.confidence, llm_confidence),
              extracted_entities |-> merged]
        ELSE [query_type |-> llm_type,
              confidence |-> Min2(70, llm_confidence),
              extracted_entities |-> merged]

NoEntities == [parameters |-> <<>>, regions |-> <<>>, locations |-> FALSE, dates |-> FALSE]

\* lines 69-85: the classifications reached without asking the LLM
ClassifiedByPattern(user_query) ==
    _detect_geographic_sql_query(user_query) \/ _is_geographic_query(Strip(Lower(user_query)))

\* lines 69-118; llm is the outcome of multi_llm_client.classify_query_type
classify_query(user_query, llm) ==
    IF _detect_geographic_sql_query(user_query)
    THEN [query_type |-> SQL_RETRIEVAL, confidence |-> 90,
          extracted_entities |-> _extract_entities(user_query)]
    ELSE IF _is_geographic_query(Strip(Lower(user_query)))
    THEN [query_type |-> SQL_RETRIEVAL, confidence |-> 95,
          extracted_entities |-> _extract_entities(Strip(Lower(user_query)))]
    ELSE IF llm.ok
    THEN _combine_classifications(_rule_based_classification(Strip(Lower(user_query))),
                                  llm.v, user_query)
    ELSE [query_type |-> VECTOR_RETRIEVAL, confidence |-> 30, extracted_entities |-> NoEntities]

(***************************************************************************)
(* RAGPipeline (rag_pipeline.py)                                           *)
(***************************************************************************)

\* lines 617 and 620: \s+LIMIT\s+\d+ and \s+ORDER\s+BY\s+.*$
clause_rules ==
    << [re |-> Regex(<<Plus(ClsS), Lit("LIMIT"), Plus(ClsS), Plus(ClsD)>>, IC), repl |-> ""],
       [re |-> Regex(<<Plus(ClsS), Lit("ORDER"), Plus(ClsS), Lit("BY"), Plus(ClsS),
                       Star(ClsAny), End>>, ICDotAll), repl |-> ""] >>

\* line 640: SELECT\s+.*?\s+FROM
select_rules ==
    << [re |-> Regex(<<Lit("SELECT"), Plus(ClsS), RepLazy(ClsAny, 0, -1), Plus(ClsS), Lit("FROM")>>,
                     ICDotAll),
        repl |-> "SELECT COUNT(*) as count FROM"] >>

\* line 628: FROM\s+(\w+)
from_pattern == Regex(<<Lit("FROM"), Plus(ClsS), Mark, Plus(ClsW), Mark>>, IC)

\* line 632: WHERE\s+(.+?)(?:\s+GROUP\s+BY|\s+ORDER\s+BY|$)
where_pattern ==
    Regex(<<Lit("WHERE"), Plus(ClsS), Mark, RepLazy(ClsAny, 1, -1), Mark,
            Alt(<< <<Plus(ClsS), Lit("GROUP"), Plus(ClsS), Lit("BY")>>,
                   <<Plus(ClsS), Lit("ORDER"), Plus(ClsS), Lit("BY")>>,
                   <<End>> >>)>>, ICDotAll)

\* line 627: count_query.split('GROUP BY')[0]
BeforeGroupBy(count_query, cut) ==
    IF cut = 0 THEN count_query ELSE SubSeq(count_query, 1, cut - 1)

\* lines 629-637
GroupCount(count_query, before_group_by, from_match, where_match) ==
    IF from_match.start = 0 THEN None
    ELSE "SELECT COUNT(*) as count FROM " \o Group(before_group_by, from_match, 1, 2)
         \o (IF where_match.start # 0
             THEN " WHERE " \o Strip(Group(count_query, where_match, 1, 2))
             ELSE "")

\* lines 627-632
GroupByCount(count_query, before_group_by) ==
    GroupCount(count_query, before_group_by,
               Search(from_pattern, before_group_by), Search(where_pattern, count_query))

\* lines 624-641
CountOf(count_query) ==
    IF Contains(Upper(count_query), "GROUP BY")
    THEN GroupByCount(count_query, BeforeGroupBy(count_query, Find(count_query, "GROUP BY")))
    ELSE SubAll(select_rules, 1, count_query)

\* lines 613-644
_get_count_query(sql_query) == CountOf(SubAll(clause_rules, 1, sql_query))

\* line 197: the methods whose statement gets no LIMIT appended
no_limit_methods == {"geographic_direct", "nearest_floats_direct", "year_comparison_direct"}

\* lines 193-198: the statement that is executed
WithLimit(gen) ==
    IF /\ ~Contains(Lower(gen.sql_query), "count(")
       /\ ~Contains(Lower(gen.sql_query), "limit")
       /\ gen.generation_method \notin no_limit_methods
    THEN gen.sql_query \o " LIMIT 25"
    ELSE gen.sql_query

(***************************************************************************)
(* Rows and hits.  A row of the relational store is a record from column   *)
(* names to values; a value is written as Python's str() of it (an integer *)
(* count "12", a float "12.5", a date "2023-01-05") and None is NULL.      *)
(* Floats in rows are multiples of 0.25, which binary floating point holds *)
(* exactly.                                                                *)
(***************************************************************************)

\* the value of a number written as [-]digits[.digits], in hundredths
ParseSigned(s) ==
    IF StartsWith(s, "-") THEN -ParseFloat(SubSeq(s, 2, Len(s))) ELSE ParseFloat(s)

Abs(n) == IF n < 0 THEN -n ELSE n

\* a digit string padded on the left with zeros to width w
ZeroPad(s, w) == IF Len(s) >= w THEN s ELSE SubSeq("000", 1, w - Len(s)) \o s

\* f"{x:.3f}" and f"{x:.2f}" of a float x given in hundredths
Fixed3(c) == (IF c < 0 THEN "-" ELSE "") \o NatStr(Abs(c) \div 100) \o "."
             \o ZeroPad(NatStr(Abs(c) % 100), 2) \o "0"
Fixed2(c) == (IF c < 0 THEN "-" ELSE "") \o NatStr(Abs(c) \div 100) \o "."
             \o ZeroPad(NatStr(Abs(c) % 100), 2)

\* f"{x:.1f}": the nearest tenth, a tie going to the even digit
Fixed1(c) ==
    LET a == Abs(c)
        tenths == a \div 10
        rest == a % 10
        up == rest > 5 \/ (rest = 5 /\ tenths % 2 = 1)
        t == IF up THEN tenths + 1 ELSE tenths
    IN  (IF c < 0 /\ t > 0 THEN "-" ELSE IF c < 0 THEN "-" ELSE "")
        \o NatStr(t \div 10) \o "." \o NatStr(t % 10)

\* f"{n:,}" of a natural number
RECURSIVE Comma(_)
Comma(n) == IF n < 1000 THEN NatStr(n)
            ELSE Comma(n \div 1000) \o "," \o ZeroPad(NatStr(n % 1000), 3)

\* row.get(key, default)
Get(row, key, default) == IF key \in DOMAIN row THEN row[key] ELSE default

\* the first occurrence of every element, in order (dict keys in insertion order)
RECURSIVE Distinct(_)
Distinct(seq) ==
    IF seq = <<>> THEN <<>>
    ELSE LET init == Distinct(SubSeq(seq, 1, Len(seq) - 1))
             last == seq[Len(seq)]
         IN  IF \E k \in DOMAIN init : init[k] = last THEN init ELSE Append(init, last)

\* "".join(seq)
Concat(seq) == Join("", seq)

\* lines 870-875, 1090-1095, 1121-1126
float_id_patterns ==
    << Regex(<<Lit("float"), Plus(ClsS), Mark, Plus(ClsD), Mark>>, NoFlags),
       Regex(<<Lit("argo"), Plus(ClsS), Lit("float"), Plus(ClsS), Mark, Plus(ClsD), Mark>>, NoFlags),
       Regex(<<Lit("float"), Plus(ClsS), Lit("id"), Plus(ClsS), Mark, Plus(ClsD), Mark>>, NoFlags),
       Regex(<<Lit("float"), Plus(ClsS), Mark, Rep(ClsD, 7, 7), Mark>>, NoFlags) >>

\* lines 877-882 and 1128-1132: group(1) of the first pattern that matches, or None
ExtractFloatId(query) ==
    LET lq == Lower(query)
        hits == {k \in DOMAIN float_id_patterns : Matches(float_id_patterns[k], lq)}
    IN  IF hits = {} THEN None
        ELSE Group(lq, Search(float_id_patterns[SetMin(hits)], lq), 1, 2)

\* the f-string of lines 889-893
DateRangeQuery(float_id) ==
       "\n"
    \o "                SELECT MIN(profile_date) as min_date, MAX(profile_date) as max_date, COUNT(*) as total_profiles\n"
    \o "                FROM argo_profiles \n"
    \o "                WHERE float_id = '" \o float_id \o "'\n"
    \o "                "

\* the f-string of lines 901-912
ExistsNoDataText(float_id, min_date, max_date, total_profiles) ==
       "**No Data Found for Requested Date**\n"
    \o "\n"
    \o "Float " \o float_id \o " exists in the database but has no data for the requested date.\n"
    \o "\n"
    \o "**Available Data for Float " \o float_id \o ":**\n"
    \o "- Date Range: " \o min_date \o " to " \o max_date \o "\n"
    \o "- Total Profiles: " \o total_profiles \o "\n"
    \o "\n"
    \o "**Suggestions:**\n"
    \o "- Try a date within the available range (" \o min_date \o " to " \o max_date \o ")\n"
    \o "- Ask for the temperature profile for a different date\n"
    \o "- Request general information about this float's data coverage"

\* the f-string of lines 981-988
EquatorialYearCountQuery(year) ==
       "\n"
    \o "                    SELECT COUNT(*) as count \n"
    \o "                    FROM argo_profiles \n"
    \o "                    WHERE EXTRACT(YEAR FROM profile_date) = " \o year \o "\n"
    \o "                    AND latitude BETWEEN -5 AND 5\n"
    \o "                    AND temperature IS NOT NULL \n"
    \o "                    AND salinity IS NOT NULL\n"
    \o "                    "

\* the f-string of lines 990-996
YearCountQuery(year) ==
       "\n"
    \o "                    SELECT COUNT(*) as count \n"
    \o "                    FROM argo_profiles \n"
    \o "                    WHERE EXTRACT(YEAR FROM profile_date) = " \o year \o "\n"
    \o "                    AND temperature IS NOT NULL \n"
    \o "                    AND salinity IS NOT NULL\n"
    \o "                    "

\* line 1140
SimilarQuery(float_id) ==
    "SELECT DISTINCT float_id FROM argo_profiles WHERE float_id LIKE '"
    \o SubSeq(float_id, 1, Min2(4, Len(float_id))) \o "%' ORDER BY float_id LIMIT 5"

\* In the formatters below db maps each statement the formatter hands to
\* db_manager.execute_query to the outcome of that call.

\* lines 864-930
_generate_no_results_response(query, classification, db) ==
    LET float_id == ExtractFloatId(query)
        date_result == db[DateRangeQuery(float_id)]
        entities == Get(classification, "extracted_entities", NoEntities)
        suggestions ==
            (IF entities.parameters # <<>>
             THEN <<"Try searching for different oceanographic parameters">> ELSE <<>>)
            \o (IF entities.locations THEN <<"Consider expanding the geographic area">> ELSE <<>>)
            \o (IF entities.dates THEN <<"Try a different date range">> ELSE <<>>)
        suggestion_text == IF suggestions # <<>>
                           THEN " You might want to: " \o Join(", ", suggestions) ELSE ""
        generic == "I couldn't find specific data matching your query about " \o query \o "."
                   \o suggestion_text
                   \o " You can also try rephrasing your question or asking for general information about ARGO float data."
    IN  IF float_id = None THEN generic
        ELSE IF ~date_result.ok THEN generic
        ELSE IF date_result.v # <<>> /\ "total_profiles" \notin DOMAIN date_result.v[1] THEN generic
        ELSE IF date_result.v # <<>> /\ StrNat(date_result.v[1].total_profiles) > 0
        THEN ExistsNoDataText(float_id, date_result.v[1].min_date, date_result.v[1].max_date,
                              date_result.v[1].total_profiles)
        ELSE "Float " \o float_id
             \o " does not exist in the ARGO database. Please check the float ID and try again."

\* 'year' in str(row)
YearInStr(row) == \E k \in DOMAIN row : Contains(k, "year") \/ Contains(row[k], "year")

\* lines 932-956
_is_year_comparison_query(query, retrieved_data) ==
    /\ ContainsAny(Lower(query), {"compare", "versus", "vs", "between", "comparison", "compared"})
    /\ \E k \in DOMAIN Get(retrieved_data, "sql_results", <<>>) : YearInStr(retrieved_data.sql_results[k])
    /\ Get(retrieved_data, "generation_method", "") = "year_comparison_direct"

\* lines 1083-1113
_is_float_not_found_query(query, sql_results) ==
    /\ MatchesAny(float_id_patterns, Lower(query))
    /\ Len(sql_results) = 1
    /\ DOMAIN sql_results[1] # {}
    /\ \A k \in DOMAIN sql_results[1] : sql_results[1][k] = None

\* lines 1115-1165
_generate_float_not_found_response(query, db) ==
    LET float_id == ExtractFloatId(query)
        similar_floats == db[SimilarQuery(float_id)]
        similar_ids ==
            IF similar_floats.ok /\ \A k \in DOMAIN similar_floats.v : "float_id" \in DOMAIN similar_floats.v[k]
            THEN [k \in DOMAIN similar_floats.v |-> similar_floats.v[k].float_id]
            ELSE <<>>
    IN  IF float_id = None
        THEN "I couldn't find the specific float you're asking about. Please provide a valid float ID."
        ELSE Join("\n",
               << "**Float " \o float_id \o " Not Found**",
                  "",
                  "Float " \o float_id \o " does not exist in the ARGO database.",
                  "",
                  "**Database Information:**",
                  "- Total unique floats: 1,800",
                  "- Date range: 2019-2025",
                  "- Total profiles: 122,215" >>
               \o (IF similar_ids # <<>>
                   THEN <<"", "**Similar Float IDs:**">>
                        \o [k \in DOMAIN similar_ids |-> "- " \o similar_ids[k]]
                   ELSE <<>>)
               \o << "",
                     "Please check the float ID and try again, or ask about available floats in a specific region or time period." >>)

\* isinstance(v, (int, float)) for a value written as text
IsNumber(v) ==
    LET body == IF StartsWith(v, "-") THEN SubSeq(v, 2, Len(v)) ELSE v
    IN  /\ v # None
        /\ body # ""
        /\ CharsOf(body) \subseteq (DigitSet \cup {"."})
        /\ CharAt(body, 1) \in DigitSet
        /\ Cardinality({i \in 1..Len(body) : CharAt(body, i) = "."}) <= 1

\* the TypeError of formatting None with a format specification
NoneFormatError == "unsupported format string passed to NoneType.__format__"

\* f"{abs(lat):.3f}°{'N' if lat >= 0 else 'S'}" (lines 518, 567) and its longitude twin (568)
lat_str(lat) == Fixed3(Abs(ParseSigned(lat))) \o "°" \o (IF ParseSigned(lat) >= 0 THEN "N" ELSE "S")
lon_str(lon) == Fixed3(Abs(ParseSigned(lon))) \o "°" \o (IF ParseSigned(lon) >= 0 THEN "E" ELSE "W")

\* key.title() of a lower-case column name
Title(key) == UpperC(CharAt(key, 1)) \o SubSeq(key, 2, Len(key))

\* getattr(self, '_current_total_count', len(results)), lines 461 and 475;
\* self holds the attributes _sql_retrieval leaves on the pipeline object
CurrentTotalCount(self, results) ==
    IF self.has_current THEN self._current_total_count ELSE NatStr(Len(results))

\* lines 442-447: a single row with a count column
CountResponse(results) ==
    IF results[1].count = None THEN Raised(NoneFormatError)
    ELSE Returned("**Database Results** (1 record found):\n\n"
                  \o "**Total Count**: " \o Comma(StrNat(results[1].count)) \o "\n")

\* lines 450-472: counts by year; year_data keeps the last count of each year
YearCountResponse(results, total_count) ==
    LET rows == {k \in DOMAIN results : {"year", "count"} \subseteq DOMAIN results[k]}
        years == {StrNat(results[k].year) : k \in rows}
        count(year) == results[SetMax({k \in rows : StrNat(results[k].year) = year})].count
        sorted == SortedSeq(years)
        RECURSIVE Sum(_)
        Sum(k) == IF k = 0 THEN 0 ELSE Sum(k - 1) + StrNat(count(sorted[k]))
    IN  IF \E k \in rows : results[k].year = None \/ results[k].count = None
        THEN Raised(NoneFormatError)
        ELSE IF total_count = None THEN Raised(NoneFormatError)
        ELSE Returned("**Database Results** (" \o Comma(StrNat(total_count)) \o " records found):\n\n"
                      \o "**Profile Counts by Year:**\n\n"
                      \o Concat([k \in DOMAIN sorted |->
                                   "**" \o NatStr(sorted[k]) \o "**: "
                                   \o Comma(StrNat(count(sorted[k]))) \o " profiles\n"])
                      \o "\n**Total**: " \o Comma(Sum(Len(sorted))) \o " profiles\n")

\* the columns of an aggregate row in the order record.items() yields them;
\* the aggregate rows of the model have their columns in this order
aggregate_keys == <<"min", "max", "avg", "count", "sum">>

\* lines 489-503: one line per aggregate column
AggregateLine(key, value, sql_query) ==
    IF key \in {"min", "max", "avg"}
    THEN IF Contains(Lower(sql_query), "temperature")
         THEN IF value = None THEN Raised(NoneFormatError)
              ELSE Returned("**" \o Title(key) \o " Temperature**: " \o Fixed2(ParseSigned(value)) \o "°C\n")
         ELSE IF Contains(Lower(sql_query), "salinity")
         THEN IF value = None THEN Raised(NoneFormatError)
              ELSE Returned("**" \o Title(key) \o " Salinity**: " \o Fixed2(ParseSigned(value)) \o " PSU\n")
         ELSE IF Contains(Lower(sql_query), "depth") \/ Contains(Lower(sql_query), "pressure")
         THEN IF value = None THEN Raised(NoneFormatError)
              ELSE Returned("**" \o Title(key) \o " Depth**: " \o Fixed1(ParseSigned(value)) \o "m\n")
         ELSE Returned("**" \o Title(key) \o "**: " \o value \o "\n")
    ELSE IF key = "count"
    THEN IF value = None THEN Raised(NoneFormatError)
         ELSE Returned("**Total Count**: " \o Comma(StrNat(value)) \o "\n")
    ELSE IF key = "sum" THEN Returned("**Total Sum**: " \o value \o "\n")
    ELSE Returned("")

\* lines 482-505: the aggregate branch, after the header
AggregateResponse(header, record, sql_query) ==
    LET line(k) == AggregateLine(aggregate_keys[k], record[aggregate_keys[k]], sql_query)
        present == {k \in DOMAIN aggregate_keys : aggregate_keys[k] \in DOMAIN record}
    IN  IF \E k \in present : ~line(k).ok THEN Raised(NoneFormatError)
        ELSE Returned(header \o Concat([k \in 1..Cardinality(present) |->
                                          line(SortedSeq(present)[k]).v]))

\* lines 513-527: one block per latitude band
LatitudeBand(record) ==
    "**" \o lat_str(Get(record, "latitude", "0")) \o "**:\n"
    \o (IF Get(record, "surface_temp", None) # None
        THEN "  - Surface Temperature: " \o Fixed2(ParseSigned(record.surface_temp)) \o "°C\n" ELSE "")
    \o (IF Get(record, "deep_temp", None) # None
        THEN "  - Deep Temperature: " \o Fixed2(ParseSigned(record.deep_temp)) \o "°C\n" ELSE "")
    \o "\n"

\* lines 535-547: a vector hit is flattened from its metadata
Flatten(result) ==
    IF "metadata" \in DOMAIN result
    THEN [float_id |-> Get(result.metadata, "float_id", "Unknown"),
          latitude |-> Get(result.metadata, "latitude", None),
          longitude |-> Get(result.metadata, "longitude", None),
          profile_date |-> Get(result.metadata, "date", None),
          profile_id |-> Get(result.metadata, "profile_id", "Unknown")]
    ELSE result

\* the key a result is grouped under, lines 538 and 549
GroupKey(result) ==
    IF "metadata" \in DOMAIN result THEN Get(result.metadata, "float_id", "Unknown")
    ELSE Get(result, "float_id", "Unknown")

\* lines 558-592: line i of a float's block
RecordLine(i, float_id, record) ==
    LET lat == Get(record, "latitude", None)
        lon == Get(record, "longitude", None)
        date == Get(record, "profile_date", "Unknown")
        profile_id == Get(record, "profile_id", "Unknown")
        max_pressure == Get(record, "max_pressure", None)
        depth_info == IF max_pressure = None THEN ""
                      ELSE " - " \o (IF Contains(max_pressure, ".")
                                     THEN Fixed1(ParseSigned(max_pressure)) ELSE max_pressure)
                           \o "m depth"
    IN  IF IsNumber(lat) /\ IsNumber(lon)
        THEN "  " \o NatStr(i) \o ". " \o profile_id \o ": " \o lat_str(lat) \o ", " \o lon_str(lon)
             \o " (" \o date \o ")" \o depth_info \o "\n"
        ELSE "  " \o NatStr(i) \o ". " \o float_id \o ": "
             \o Get(record, "first_profile_date", "Unknown") \o " to "
             \o Get(record, "last_profile_date", "Unknown") \o " ("
             \o Get(record, "total_profiles", "Unknown") \o " profiles, "
             \o Get(record, "operating_duration", "Unknown") \o ")\n"

\* lines 553-598: the block of one float
FloatBlock(float_id, records) ==
    "**Float " \o float_id \o "** (" \o NatStr(Len(records)) \o " records):\n"
    \o Concat([i \in 1..Min2(5, Len(records)) |-> RecordLine(i, float_id, records[i])])
    \o (IF Len(records) > 5
        THEN "     ... and " \o NatStr(Len(records) - 5) \o " more records\n" ELSE "")
    \o "\n"

\* lines 529-604: results grouped by float, in the order the floats first appear
FloatGroupsResponse(header, results) ==
    LET keys == Distinct([k \in DOMAIN results |-> GroupKey(results[k])])
        IsOf(float_id) == LET Of(r) == GroupKey(r) = float_id IN Filter(results, Of)
        records(float_id) == LET of == IsOf(float_id) IN [k \in DOMAIN of |-> Flatten(of[k])]
    IN  header
        \o Concat([k \in 1..Min2(20, Len(keys)) |-> FloatBlock(keys[k], records(keys[k]))])
        \o (IF Len(keys) > 20
            THEN "... and " \o NatStr(Len(keys) - 20) \o " more floats\n" ELSE "")

\* lines 436-611
_generate_raw_data_response(query, results, data_source, sql_query, self) ==
    LET total_count == CurrentTotalCount(self, results)
        header == "**Database Results** (" \o Comma(StrNat(total_count)) \o " records found):\n\n"
                  \o (IF StrNat(total_count) > Len(results)
                      THEN "**Displaying a few of them:**\n\n" ELSE "")
        by_year == /\ ContainsAny(Lower(query), {"how many", "count", "number of profiles", "profiles in"})
                   /\ \E k \in DOMAIN results : {"year", "count"} \subseteq DOMAIN results[k]
    IN  IF results = <<>> THEN Returned("No data available for your query.")
        ELSE IF Len(results) = 1 /\ "count" \in DOMAIN results[1] THEN CountResponse(results)
        ELSE IF by_year THEN YearCountResponse(results, total_count)
        ELSE IF total_count = None THEN Raised(NoneFormatError)
        ELSE IF /\ "float_id" \notin DOMAIN results[1]
                /\ \E k \in DOMAIN aggregate_keys : aggregate_keys[k] \in DOMAIN results[1]
        THEN AggregateResponse(header, results[1], sql_query)
        ELSE IF /\ "latitude" \in DOMAIN results[1]
                /\ ("surface_temp" \in DOMAIN results[1] \/ "deep_temp" \in DOMAIN results[1])
                /\ "float_id" \notin DOMAIN results[1]
        THEN IF \E k \in DOMAIN results : Get(results[k], "latitude", "0") = None
             THEN Raised("bad operand type for abs(): 'NoneType'")
             ELSE Returned(header \o Concat([k \in DOMAIN results |-> LatitudeBand(results[k])]))
        ELSE Returned(FloatGroupsResponse(header, results))

\* lines 406-434
_generate_data_response(query, retrieved_data, query_type, self) ==
    LET sql_results == Get(retrieved_data, "sql_results", <<>>)
        vector_results == Get(retrieved_data, "vector_results", <<>>)
        sql_query == IF self.has_current THEN self._current_sql_query ELSE ""
    IN  IF sql_results # <<>>
        THEN _generate_raw_data_response(query, sql_results, "SQL database", sql_query, self)
        ELSE IF vector_results # <<>>
        THEN _generate_raw_data_response(query, vector_results, "vector search", sql_query, self)
        ELSE Returned("No data available for your query.")

\* int(row.get('year', 0)), lines 969 and 1004
YearOf(row) == StrNat(Get(row, "year", "0"))

\* min(...) and max(...) of the values of a column, formatted with .1f
ColumnMin(rows, column) == Fixed1(SetMin({ParseSigned(rows[k][column]) : k \in DOMAIN rows}))
ColumnMax(rows, column) == Fixed1(SetMax({ParseSigned(rows[k][column]) : k \in DOMAIN rows}))

\* lines 958-1081.  The rows of the year comparison statement carry
\* surface_temperature and surface_salinity; in the rows of the model both are
\* NULL, so lines 1030-1040 and 1063-1073 add nothing.
_generate_year_comparison_response(query, sql_results, db) ==
    LET is_equatorial == ContainsAny(Lower(query), {"equator", "equatorial", "near the equator"})
        count_query(year) == IF is_equatorial THEN EquatorialYearCountQuery(NatStr(year))
                             ELSE YearCountQuery(NatStr(year))
        count_results(year) == db[count_query(year)]
        year_counts(year) ==
            IF year = 0 THEN "0"
            ELSE IF ~count_results(year).ok THEN "0"
            ELSE IF count_results(year).v = <<>> THEN "0"
            ELSE IF "count" \notin DOMAIN count_results(year).v[1] THEN "0"
            ELSE count_results(year).v[1].count
        years == SortedSeq({YearOf(sql_results[k]) : k \in DOMAIN sql_results})
        OfYear(year) == LET In(row) == YearOf(row) = year IN Filter(sql_results, In)
        Located(rows, column) == LET Has(row) == Get(row, column, None) # None IN Filter(rows, Has)
        coverage(year) ==
            LET latitudes == Located(OfYear(year), "latitude")
                longitudes == Located(OfYear(year), "longitude")
            IN  IF latitudes # <<>> /\ longitudes # <<>>
                THEN << "- Geographic Coverage: " \o ColumnMin(latitudes, "latitude") \o " to "
                        \o ColumnMax(latitudes, "latitude") \o "°N/S, "
                        \o ColumnMin(longitudes, "longitude") \o " to "
                        \o ColumnMax(longitudes, "longitude") \o "°E/W" >>
                ELSE <<>>
        part(year) == << "**" \o NatStr(year) \o ":**", "- Profiles: " \o year_counts(year) >>
                      \o coverage(year) \o <<"">>
        RECURSIVE parts(_)
        parts(k) == IF k = 0 THEN <<>> ELSE parts(k - 1) \o part(years[k])
        summary == IF Len(years) = 2
                   THEN << "**Comparison Summary:**",
                           "- Data Coverage: " \o NatStr(years[1]) \o " had " \o year_counts(years[1])
                           \o " profiles, " \o NatStr(years[2]) \o " had " \o year_counts(years[2])
                           \o " profiles" >>
                   ELSE <<>>
    IN  IF sql_results = <<>> THEN Returned("No data available for year comparison.")
        ELSE IF \E k \in DOMAIN sql_results : Get(sql_results[k], "year", "0") = None
        THEN Raised("int() argument must be a string, a bytes-like object or a real number, not 'NoneType'")
        ELSE IF Len(years) < 2
        THEN Returned("Found data for " \o NatStr(years[1])
                      \o " only. Need data from at least two different years for comparison.")
        ELSE Returned(Join("\n", <<"**Ocean Conditions Comparison**", "">> \o parts(Len(years)) \o summary))

\* the statements _generate_year_comparison_response executes, lines 975-1000
YearComparisonLookups(query, sql_results) ==
    LET is_equatorial == ContainsAny(Lower(query), {"equator", "equatorial", "near the equator"})
    IN  IF \E k \in DOMAIN sql_results : Get(sql_results[k], "year", "0") = None THEN {}
        ELSE { IF is_equatorial THEN EquatorialYearCountQuery(NatStr(YearOf(sql_results[k])))
               ELSE YearCountQuery(NatStr(YearOf(sql_results[k])))
               : k \in {j \in DOMAIN sql_results : YearOf(sql_results[j]) > 0} }

\* lines 1168-1181
_get_data_sources_used(retrieved_data) ==
    (IF Get(retrieved_data, "sql_results", <<>>) # <<>> THEN <<"PostgreSQL database">> ELSE <<>>)
    \o (IF Get(retrieved_data, "vector_results", <<>>) # <<>>
        THEN <<"Vector database (semantic search)">> ELSE <<>>)
    \o (IF DOMAIN Get(retrieved_data, "hybrid_results", <<>>) # {}
        THEN <<"Hybrid retrieval">> ELSE <<>>)

\* lines 1183-1193
_count_total_results(retrieved_data) ==
    Len(Get(retrieved_data, "sql_results", <<>>)) + Len(Get(retrieved_data, "vector_results", <<>>))

\* an error response that does not tell the error
_create_error_response_silent(query, error) ==
    [success |-> FALSE,
     query |-> query,
     classification |-> [query_type |-> VECTOR_RETRIEVAL, confidence |-> 0,
                         reasoning |-> "Error occurred during processing"],
     retrieved_data |-> [sql_results |-> <<>>, vector_results |-> <<>>],
     response |-> "I encountered an error while processing your query.",
     metadata |-> [query_type |-> "error", confidence |-> 0,
                   data_sources_used |-> <<>>, total_results |-> 0]]

\* lines 1195-1217; confidences are written in hundredths
_create_error_response(query, error) ==
    [success |-> FALSE,
     query |-> query,
     classification |-> [query_type |-> VECTOR_RETRIEVAL, confidence |-> 0,
                         reasoning |-> "Error occurred during processing"],
     retrieved_data |-> [sql_results |-> <<>>, vector_results |-> <<>>, error |-> error],
     response |-> "I encountered an error while processing your query: " \o error
                  \o ". Please try rephrasing your question.",
     metadata |-> [query_type |-> "error", confidence |-> 0,
                   data_sources_used |-> <<>>, total_results |-> 0]]

\* lines 1254-1285: the regions in the order the code tries them; bounds in degrees
regions ==
    << [name |-> "bay of bengal", lat_min |-> 5, lat_max |-> 25, lon_min |-> 80, lon_max |-> 100,
        keywords |-> {"bay of bengal", "bengal", "bengal bay"}],
       [name |-> "arabian sea", lat_min |-> 10, lat_max |-> 30, lon_min |-> 50, lon_max |-> 80,
        keywords |-> {"arabian sea", "arabian", "arabia"}],
       [name |-> "indian ocean", lat_min |-> -60, lat_max |-> 30, lon_min |-> 20, lon_max |-> 120,
        keywords |-> {"indian ocean", "indian"}],
       [name |-> "pacific ocean", lat_min |-> -60, lat_max |-> 60, lon_min |-> 120, lon_max |-> -120,
        keywords |-> {"pacific ocean", "pacific"}],
       [name |-> "atlantic ocean", lat_min |-> -60, lat_max |-> 60, lon_min |-> -80, lon_max |-> 20,
        keywords |-> {"atlantic ocean", "atlantic"}],
       [name |-> "mediterranean sea", lat_min |-> 30, lat_max |-> 45, lon_min |-> -5, lon_max |-> 40,
        keywords |-> {"mediterranean", "mediterranean sea"}] >>

\* lines 1327-1343
broader_regions ==
    << [key |-> "bay of bengal", lat_min |-> -10, lat_max |-> 30, lon_min |-> 60, lon_max |-> 120,
        name |-> "broader Indian Ocean region"],
       [key |-> "arabian sea", lat_min |-> 5, lat_max |-> 35, lon_min |-> 45, lon_max |-> 85,
        name |-> "broader Arabian Sea region"],
       [key |-> "indian ocean", lat_min |-> -60, lat_max |-> 30, lon_min |-> 20, lon_max |-> 120,
        name |-> "broader Indian Ocean region"] >>

\* lines 1306-1309 and 1359-1360: the bounds test on the coordinates of a hit
InBounds(region, metadata) ==
    /\ region.lat_min * 100 <= ParseSigned(metadata.latitude)
    /\ ParseSigned(metadata.latitude) <= region.lat_max * 100
    /\ region.lon_min * 100 <= ParseSigned(metadata.longitude)
    /\ ParseSigned(metadata.longitude) <= region.lon_max * 100

\* metadata.get('latitude') and metadata.get('longitude') are both present
HasCoordinates(result) ==
    LET metadata == Get(result, "metadata", <<>>)
    IN  Get(metadata, "latitude", None) # None /\ Get(metadata, "longitude", None) # None

\* lines 1371-1375
WithNote(result, name) ==
    LET metadata == Get(result, "metadata", <<>>)
        note == "Using " \o name \o " (no specific data found in requested region)"
        noted == [k \in DOMAIN metadata \cup {"geographic_note"} |->
                    IF k = "geographic_note" THEN note ELSE metadata[k]]
    IN  [k \in DOMAIN result \cup {"metadata"} |-> IF k = "metadata" THEN noted ELSE result[k]]

\* lines 1249-1378
_filter_by_geographic_region(query, vector_results) ==
    LET query_lower == Lower(query)
        matching == {k \in DOMAIN regions : ContainsAny(query_lower, regions[k].keywords)}
        matching_region == regions[SetMin(matching)]
        Kept(result) == ~HasCoordinates(result) \/ InBounds(matching_region, result.metadata)
        filtered_results == Filter(vector_results, Kept)
        broader == {k \in DOMAIN broader_regions : Contains(query_lower, broader_regions[k].key)}
        broader_region == broader_regions[SetMin(broader)]
        KeptBroader(result) == HasCoordinates(result) /\ InBounds(broader_region, result.metadata)
        broadened == Filter(vector_results, KeptBroader)
    IN  IF matching = {} THEN vector_results
        ELSE IF filtered_results # <<>> THEN filtered_results
        ELSE IF broader = {} THEN <<>>
        ELSE [k \in DOMAIN broadened |-> WithNote(broadened[k], broader_region.name)]

\* lines 279-291: the first occurrence of every id, cut at max_results
RECURSIVE Deduplicate(_, _, _)
Deduplicate(all_vector_results, unique_results, max_results) ==
    IF all_vector_results = <<>> THEN unique_results
    ELSE IF \E k \in DOMAIN unique_results :
               Get(unique_results[k], "id", None) = Get(Head(all_vector_results), "id", None)
    THEN Deduplicate(Tail(all_vector_results), unique_results, max_results)
    ELSE IF Len(unique_results) + 1 >= max_results
    THEN Append(unique_results, Head(all_vector_results))
    ELSE Deduplicate(Tail(all_vector_results), Append(unique_results, Head(all_vector_results)),
                     max_results)

(***************************************************************************)
(* VisualizationGenerator (visualization_generator.py)                    *)
(***************************************************************************)

\* lines 21-22: the sort key of a row
sort_key(row) ==
    IF Get(row, "profile_date", None) # None THEN row.profile_date
    ELSE IF Get(row, "profile_time", None) # None THEN row.profile_time
    ELSE "0"

\* the order of two date texts of the form YYYY-MM-DD
DateLeq(a, b) == StrNat(Replace(a, "-", "")) <= StrNat(Replace(b, "-", ""))

\* sorted(sql_results, key=sort_key), a stable sort
RECURSIVE SortedByDate(_)
SortedByDate(rows) ==
    IF rows = <<>> THEN <<>>
    ELSE LET init == SortedByDate(SubSeq(rows, 1, Len(rows) - 1))
             last == rows[Len(rows)]
             before == {k \in DOMAIN init : DateLeq(sort_key(init[k]), sort_key(last))}
             cut == IF before = {} THEN 0 ELSE SetMax(before)
         IN  SubSeq(init, 1, cut) \o <<last>> \o SubSeq(init, cut + 1, Len(init))

\* lines 17-30; a coordinate pair is <<latitude, longitude>>
extract_coordinates(sql_results) ==
    LET Located(row) == Get(row, "latitude", None) # None /\ Get(row, "longitude", None) # None
        rows == Filter(SortedByDate(sql_results), Located)
    IN  [k \in DOMAIN rows |-> <<rows[k].latitude, rows[k].longitude>>]

\* lines 32-45
extract_time_series(sql_results) ==
    [k \in DOMAIN sql_results |->
       [timestamp |-> IF Get(sql_results[k], "profile_date", None) # None
                      THEN sql_results[k].profile_date ELSE "Unknown",
        latitude |-> Get(sql_results[k], "latitude", None),
        longitude |-> Get(sql_results[k], "longitude", None),
        profile_id |-> Get(sql_results[k], "profile_id", None),
        float_id |-> Get(sql_results[k], "float_id", None)]]

\* lines 201-214: the coordinates and the time series of the payload; the
\* GeoJSON and the two code snippets are texts derived from the coordinates.
\* Sorting raises when one row has a date and another has none.
build_visualization_payload(sql_results) ==
    IF /\ \E k \in DOMAIN sql_results : sort_key(sql_results[k]) = "0"
       /\ \E k \in DOMAIN sql_results : sort_key(sql_results[k]) # "0"
    THEN Raised("'<' not supported between instances of 'int' and 'str'")
    ELSE Returned([coordinates |-> extract_coordinates(sql_results),
                   time_series |-> extract_time_series(sql_results)])

(***************************************************************************)
(* The environment of the pipeline: the relational store, the vector       *)
(* store, the geographic validator and the LLM providers.                  *)
(***************************************************************************)

\* the profiles the relational store holds
Profile1 ==
    [float_id |-> "1234567", profile_id |-> "1234567_001", latitude |-> "12.5",
     longitude |-> "85.0", profile_date |-> "2019-03-05"]
Profile2 ==
    [float_id |-> "1234567", profile_id |-> "1234567_002", latitude |-> "-3.25",
     longitude |-> "90.75", profile_date |-> "2023-01-05"]
Profile3 ==
    [float_id |-> "2902000", profile_id |-> "2902000_001", latitude |-> "18.0",
     longitude |-> "66.5", profile_date |-> "2023-06-20"]
argo_profiles == <<Profile1, Profile2, Profile3>>

\* the float identifier a statement selects on, or None
float_literal == Regex(<<Lit("float_id"), Star(ClsS), Lit("="), Star(ClsS), Lit("'"),
                         Mark, Plus(ClsD), Mark, Lit("'")>>, IC)
year_literal == Regex(<<Lit("EXTRACT(YEAR FROM profile_date)"), Star(ClsS), Lit("="), Star(ClsS),
                        Mark, Rep(ClsD, 4, 4), Mark>>, IC)
prefix_literal == Regex(<<Lit("float_id LIKE '"), Mark, Star(ClsD), Mark, Lit("%'")>>, IC)

\* the profiles a statement selects: those of the float and the year it names
SelectedBy(stmt, float_match, year_named) ==
    LET Both(row) ==
            /\ float_match.start = 0 \/ row.float_id = Group(stmt, float_match, 1, 2)
            /\ ~year_named \/ Contains(stmt, "EXTRACT(YEAR FROM profile_date) = "
                                              \o SubSeq(row.profile_date, 1, 4))
    IN  Filter(argo_profiles, Both)

Selected(stmt) == SelectedBy(stmt, Search(float_literal, stmt), Matches(year_literal, stmt))

\* a row of the year comparison statement
YearRow(row) ==
    [year |-> SubSeq(row.profile_date, 1, 4), float_id |-> row.float_id,
     profile_id |-> row.profile_id, latitude |-> row.latitude, longitude |-> row.longitude,
     profile_date |-> row.profile_date, surface_temperature |-> None, surface_salinity |-> None,
     surface_pressure |-> None]

\* the profiles of the floats whose identifier begins with the prefix
Prefixed(prefix) ==
    LET Like(row) == StartsWith(row.float_id, prefix)
    IN  Filter(argo_profiles, Like)

FloatIds(rows) == Distinct([k \in DOMAIN rows |-> rows[k].float_id])

IdRows(ids) == [k \in DOMAIN ids |-> [float_id |-> ids[k]]]

\* the oldest and the latest date of the selected profiles, and their number
DateRangeRow(selected, sorted) ==
    [min_date |-> IF selected = <<>> THEN None ELSE sorted[1].profile_date,
     max_date |-> IF selected = <<>> THEN None ELSE sorted[Len(sorted)].profile_date,
     total_profiles |-> NatStr(Len(selected))]

YearRows(sorted) == [k \in DOMAIN sorted |-> YearRow(sorted[Len(sorted) + 1 - k])]

RowsOf(stmt, upper, selected, prefix_match) ==
    IF Contains(stmt, "MIN(profile_date)")
    THEN << DateRangeRow(selected, SortedByDate(selected)) >>
    ELSE IF prefix_match.start # 0
    THEN IdRows(FloatIds(Prefixed(Group(stmt, prefix_match, 1, 2))))
    ELSE IF Contains(upper, "COUNT(") THEN << [count |-> NatStr(Len(selected))] >>
    ELSE IF Contains(upper, "MAX(")
    THEN << [max |-> IF selected = <<>> THEN None ELSE "28.5"] >>
    ELSE IF Contains(upper, "AVG(")
    THEN << [avg |-> IF selected = <<>> THEN None ELSE "27.25"] >>
    ELSE IF Contains(stmt, "AS year")
    THEN YearRows(SortedByDate(selected))
    ELSE selected

\* the rows the store returns for a statement
RowsFor(stmt) == RowsOf(stmt, Upper(stmt), Selected(stmt), Search(prefix_literal, stmt))

\* the failure of a store, of a provider or of the validator
Unavailable == Raised("service unavailable")

\* db_manager.get_database_stats()
DatabaseStats == [total_profiles |-> NatStr(Len(argo_profiles))]

\* the hits the vector store ranks first for every query
Hit1 ==
    [id |-> "h1", metadata |-> [float_id |-> "1234567", latitude |-> "12.5", longitude |-> "85.0",
                                date |-> "2019-03-05", profile_id |-> "1234567_001"]]
Hit2 ==
    [id |-> "h2", metadata |-> [float_id |-> "1234567", latitude |-> "-3.25", longitude |-> "90.75",
                                date |-> "2023-01-05", profile_id |-> "1234567_002"]]
Hit3 ==
    [id |-> "h3", metadata |-> [float_id |-> "2902000", latitude |-> "18.0", longitude |-> "66.5",
                                date |-> "2023-06-20", profile_id |-> "2902000_001"]]

\* vector_db_manager.semantic_search(query, limit=limit)
semantic_search(query, limit) == SubSeq(<<Hit2, Hit1>>, 1, Min2(limit, 2))

\* vector_db_manager.search_by_parameter(param, limit=5) and search_by_region(region, limit=5)
search_by_parameter(param) == <<Hit1, Hit3>>
search_by_region(region) == <<Hit3>>

\* GeographicValidator.get_coverage_info()
get_coverage_info ==
    [total_profiles |-> "122215", description |-> "Indian Ocean",
     longitude_range |-> <<"20", "120">>, latitude_range |-> <<"60", "30">>]

\* the regions the store has no data for
unavailable_regions == {"atlantic", "pacific", "arctic", "mediterranean"}

\* GeographicValidator.validate_geographic_coverage(query)
validate_geographic_coverage(query) ==
    IF ContainsAny(Lower(query), unavailable_regions)
    THEN [is_valid |-> FALSE,
          message |-> "Data is available for the Indian Ocean only (Arabian Sea, Bay of Bengal, Indian Ocean)."]
    ELSE [is_valid |-> TRUE, message |-> ""]

\* a reply of multi_llm_client.classify_query_type
LLMClassification(query_type, regions_named) ==
    [query_type |-> query_type, has_confidence |-> TRUE, confidence |-> 80,
     extracted_entities |-> [parameters |-> <<>>, regions |-> regions_named]]

\* the replies of the LLM to the classification prompt
ClassificationReplies ==
    { LLMClassification(VECTOR_RETRIEVAL, <<"indian ocean">>),
      LLMClassification(HYBRID_RETRIEVAL, <<>>),
      LLMClassification(SQL_RETRIEVAL, <<>>) }

\* queries whose classification is fused from the rules and the reply of the
\* LLM: with no parameter, one parameter and two parameters named
FusedQueries ==
    {"argo buoys", "salinity of argo buoys", "temperature of argo buoys",
     "temperature and salinity of argo buoys"}

\* queries without a token of the data-based responses, one of them with a parameter
ShapedQueries == {"argo buoys and oxygen", "argo buoys and currents"}

\* queries about a float in a year of which the store holds no profile: a
\* float the store holds, and one it does not hold
DatedFloatQueries == {"float 1234567 temperature in 2030", "float 7654321 temperature in 2030"}

\* the parameters and the regions a reply of the LLM names
NamedParameters == {<<>>, <<"salinity">>, <<"temperature">>, <<"temperature", "salinity">>}
NamedRegions == {<<>>, <<"indian ocean">>, <<"arabian sea">>}

\* replies of the LLM with entities of their own
EntityReplies ==
    {[query_type |-> query_type, has_confidence |-> TRUE, confidence |-> 80,
      extracted_entities |-> [parameters |-> parameters, regions |-> regions_named]] :
        query_type \in {SQL_RETRIEVAL, VECTOR_RETRIEVAL, HYBRID_RETRIEVAL},
        parameters \in NamedParameters, regions_named \in NamedRegions}

\* replies that keep to neither the three query types nor the range of the
\* confidence: a type of the LLM's own making, and a confidence in percent
StrayClassifications ==
    { [LLMClassification("statistical_analysis", <<>>) EXCEPT !.confidence = 90],
      [LLMClassification(VECTOR_RETRIEVAL, <<>>) EXCEPT !.confidence = 8500] }

\* the replies of the LLM to the classification prompt for a query
ClassifierReplies(user_query) ==
    IF user_query \in FusedQueries THEN EntityReplies
    ELSE IF user_query \in ShapedQueries THEN {LLMClassification(VECTOR_RETRIEVAL, <<>>)}
    ELSE IF user_query \in DatedFloatQueries THEN {LLMClassification(SQL_RETRIEVAL, <<>>)}
    ELSE IF Contains(Lower(user_query), "describe") THEN StrayClassifications
    ELSE IF Contains(Lower(user_query), "near") THEN {LLMClassification(VECTOR_RETRIEVAL, <<>>)}
    ELSE ClassificationReplies

\* the replies of the LLM to the SQL prompt for a query; ~ stands for a backtick
SQLReplies(query) ==
    LET float_id == ExtractFloatId(query)
        of_float == "SELECT * FROM argo_profiles WHERE float_id = '" \o float_id \o "'"
    IN  IF query \in DatedFloatQueries
        THEN { of_float,
               "SELECT MAX(temperature[1]) FROM argo_profiles WHERE float_id = '" \o float_id
               \o "' AND EXTRACT(YEAR FROM profile_date) = 2030" }
        ELSE IF float_id # None
        THEN { of_float,
               of_float \o " AND profile_date = '2030-01-01'",
               "SELECT COUNT(*) FROM argo_profiles WHERE float_id = '" \o float_id \o "'",
               "SELECT MAX(temperature[1]) FROM argo_profiles WHERE float_id = '" \o float_id \o "'" }
        ELSE IF Contains(Lower(query), "show")
        THEN { "~~~sql\nSELECT AVG(temperature) FROM argo_profiles\n~~~",
               "SELECT AVG(p.salinity) FROM argo_profiles p",
               "SELECT * FROM argo_profiles WHERE 1=1; dr LIMIT 1op TABLE x",
               "DROP TABLE argo_profiles" }
        ELSE IF Contains(Lower(query), "drift")
        THEN { "SELECT * FROM argo_profiles WHERE float_id = '2902000'" }
        ELSE { "SELECT * FROM argo_profiles" }

\* the replies of the LLM to the final-response prompt
Prose == "ARGO buoys drift with the currents and profile the water column every ten days."
FinalReplies == {"", Prose}

\* replies of 49, 50 and 51 characters, and a generic one
Reply49 == "ARGO buoys drift with the currents of the oceans."
Reply50 == "ARGO buoys drift with the currents of all oceans.."
Reply51 == "ARGO buoys drift with the currents of these oceans."
GenericReply == "No data found for this query in the ARGO profiles of the Indian Ocean."

\* the replies of the LLM to the final-response prompt of a query
FinalRepliesFor(query) ==
    IF query \in ShapedQueries THEN {"", Reply49, Reply50, Reply51, GenericReply}
    ELSE FinalReplies

\* A call of the environment is written <<callee, argument, ...>>, and the
\* replies a callee can give when it does not fail are a set.

\* db_manager.execute_query(stmt) for each of the statements
Statements(stmts) == [call \in {<<"execute_query", stmt>> : stmt \in stmts} |-> {RowsFor(call[2])}]

\* every outcome of a call: a reply, or an exception
Outcomes(replies) == {Returned(r) : r \in replies} \cup {Unavailable}

(***************************************************************************)
(* The pipeline as a state machine.  An invocation of process_query is a   *)
(* task of the event loop; the hybrid path adds two tasks to it.  A task   *)
(* runs from one suspension point to the next without interruption, and    *)
(* the only suspension point is the gather of the hybrid path.             *)
(***************************************************************************)

\* line 24: self.max_sql_results = settings.MAX_SEARCH_RESULTS
max_sql_results == 10

\* how many calls of the environment may fail in a behaviour of one invocation,
\* and in a behaviour of several
MaxFaults == 3
RepeatFaults == 0
\* how many invocations arrive one after the other, and how many may overlap
SeqInvocations == 3
ConcInvocations == 2

\* the queries users send
Queries ==
    { "show temperature in the bay of bengal", "what data is available",
      "how do argo buoys work", "why do argo buoys drift",
      "temperature in the atlantic ocean", "float 1234567 temperature",
      "float 7654321 temperature", "Compare temperature 2019 vs 2023",
      "describe argo buoys", "buoys near india" }

\* the queries of the scenarios with several invocations
RepeatedQueries == {"how do argo buoys work", "why do argo buoys drift", "what data is available"}

Task(i, f) == [i |-> i, f |-> f]
Idle == Task(0, "idle")

\* the attributes of a pipeline object on which _sql_retrieval has not yet stored anything
NoAttributes == [has_current |-> FALSE, _current_total_count |-> "0", _current_sql_query |-> ""]

\* a frame of _sql_retrieval or _vector_retrieval: its position and local variables
Frame(pc, max_results) ==
    [pc |-> pc, max_results |-> max_results, gen |-> NotTaken, sql_query |-> "",
     total_count |-> "0", vector_results |-> <<>>, data |-> <<>>]

\* lines 150-155: the retrieved data before any retrieval
EmptyData == [sql_results |-> <<>>, vector_results |-> <<>>, hybrid_results |-> <<>>,
              database_stats |-> <<>>]

\* an invocation of process_query at its first line
Invocation(user_query) ==
    [user_query |-> user_query,
     classification |-> <<>>,
     main |-> Frame("classify", max_sql_results),
     sql |-> Frame("unused", 0),
     vec |-> Frame("unused", 0),
     retrieved_data |-> EmptyData,
     final_response |-> <<>>,
     result |-> <<>>,
     calls |-> {},
     gateway |-> {},
     synthesized |-> FALSE,
     wrote |-> NoAttributes,
     seen |-> NoAttributes]

\* the answers the environment can give to calls, each with its replies: a call
\* that was answered before is answered the same way, and failures are limited
Answers(replies) ==
    {a \in [DOMAIN replies -> UNION {Outcomes(replies[c]) : c \in DOMAIN replies}] :
       /\ \A c \in DOMAIN a : a[c] \in Outcomes(replies[c])
       /\ \A c \in DOMAIN a \cap DOMAIN memo : a[c] = memo[c]
       /\ faults + Cardinality({c \in DOMAIN a \ DOMAIN memo : ~a[c].ok})
             <= IF scenario = "single" THEN MaxFaults ELSE RepeatFaults}

\* the outcome of the only call of a
Only(a) == a[CHOOSE c \in DOMAIN a : TRUE]

\* the environment has given the answers a to invocation i
Heard(a) ==
    /\ memo' = a @@ memo
    /\ faults' = faults + Cardinality({c \in DOMAIN a \ DOMAIN memo : ~a[c].ok})

(***************************************************************************)
(* MultiLLMClient, the gateway to the two backends.  A call of a backend   *)
(* is <<callee, purpose, user_query>>: the purpose tells the messages of   *)
(* one caller from those of another.                                       *)
(***************************************************************************)

\* line 118: the keywords for which Hugging Face is preferred
hf_keywords == {"map", "coordinates", "visualization", "plot", "geojson", "plotly"}

\* lines 113-126; text holds the query and the messages, and long tells that
\* the estimate of its tokens is above the hard limit of Groq
_should_use_hf(text, long) == ContainsAny(Lower(text), hf_keywords) \/ long

\* whether the estimate of the tokens of a prompt is above the hard limit of
\* Groq: either way in a behaviour of one invocation; the prompts of the
\* repeated queries stay under it
Overlong == IF scenario = "single" THEN BOOLEAN ELSE {FALSE}

\* lines 147-148: the backends in the order in which they are tried
Providers(use_hf) == IF use_hf THEN <<"hf", "groq">> ELSE <<"groq", "hf">>

\* lines 154 and 158: the call of a backend
BackendCall(provider, purpose, user_query) ==
    <<IF provider = "groq" THEN "groq.generate_response" ELSE "hf.generate", purpose, user_query>>

\* lines 143-148: the calls generate_response makes if each one before failed
ProviderCalls(purpose, user_query, text, long) ==
    [k \in 1..2 |-> BackendCall(Providers(_should_use_hf(text, long))[k], purpose, user_query)]

\* the answers to the calls of chain, made one after the other until one returns
Attempts(chain, replies) ==
    UNION {{a \in Answers([c \in {chain[k] : k \in 1..n} |-> replies]) :
              /\ \A k \in 1..(n - 1) : ~a[chain[k]].ok
              /\ n = Len(chain) \/ a[chain[n]].ok} :
           n \in {m \in 0..Len(chain) : m > 0 \/ chain = <<>>}}

\* a generate_response that gives up when the preferred backend fails
generate_response_preferred_only(chain, a) == a[chain[1]]

\* lines 150-168: the first completion, or the error when both backends failed
generate_response(chain, a) ==
    IF a[chain[1]].ok THEN a[chain[1]]
    ELSE IF a[chain[2]].ok THEN a[chain[2]]
    ELSE Raised("All providers failed: " \o a[chain[2]].e)

\* llm_client.py, lines 337-347: GroqLLMClient.generate_final_response asks
\* Groq with its own messages and answers for it when that fails
groq_generate_final_response(completion) ==
    IF completion.ok THEN completion.v
    ELSE "Found data related to your query, but encountered an error processing it. Please try rephrasing your question."

\* lines 186-203: chain holds the calls of generate_response and, last, the call
\* of GroqLLMClient.generate_final_response
generate_final_response(chain, a) ==
    LET completion == generate_response(chain, a)
    IN  IF completion.ok THEN completion.v ELSE groq_generate_final_response(a[chain[3]])

\* what the gateway was asked and what it gave: the calls of its backends in
\* the order of line 148, and the outcome of generate_response
Asked(chain, a) ==
    IF chain = <<>> THEN {}
    ELSE {[providers |-> SubSeq(chain, 1, 2), outcome |-> generate_response(chain, a)]}

\* task <<i, f>> is running and is at pc
Runs(i, f, pc) ==
    /\ i \in DOMAIN inv
    /\ running = Task(i, f)
    /\ inv[i][f].pc = pc

\* a process_query without its except clause: the exception reaches the caller
process_query_propagates(user_query, e) == Raised(e)

\* lines 136-141: the except clause of process_query
process_query_except(user_query, e) == _create_error_response(user_query, e)

\* process_query returns: the task of invocation i ends
Finished(i, calls, result) ==
    [inv EXCEPT ![i].result = result, ![i].main.pc = "done", ![i].calls = @ \cup calls]

\* lines 39 and 42-45: the coverage phrases and the answer
coverage_phrases == {"what data", "data coverage", "ocean regions", "available data", "what oceans"}
CoverageAnswer(coverage_info) ==
    "Our ARGO float database contains " \o Comma(StrNat(coverage_info.total_profiles))
    \o " profiles from the " \o coverage_info.description \o ". "
    \o "Longitude range: " \o coverage_info.longitude_range[1] \o "°E to "
    \o coverage_info.longitude_range[2] \o "°E, "
    \o "Latitude range: " \o coverage_info.latitude_range[1] \o "°S to "
    \o coverage_info.latitude_range[2] \o "°N. "
    \o "We do not have data for the Atlantic Ocean, Pacific Ocean, Arctic Ocean, or Mediterranean Sea."

\* line 68: the tokens that force SQL retrieval
force_tokens ==
    {"show", "find", "get", "list", "display", "float", "data", "profile", "temperature",
     "salinity", "trajectory", "trajectories", "location", "coordinates", "map", "bay",
     "ocean", "sea", "equator", "near"}

\* an orchestrator without the override of lines 68-72
Unforced(user_query, classification) == classification

\* lines 68-72
Forced(user_query, classification) ==
    IF ContainsAny(Lower(user_query), force_tokens)
    THEN [k \in DOMAIN classification \cup {"reasoning"} |->
            CASE k = "query_type" -> SQL_RETRIEVAL
              [] k = "confidence" -> 100
              [] k = "reasoning" -> "Forced SQL retrieval for data query to prevent hallucination"
              [] OTHER -> classification[k]]
    ELSE classification

\* a request arrives and the event loop gets a task for it
Arrive(user_query) ==
    /\ running = Idle
    /\ CASE scenario = "single" -> inv = <<>> /\ user_query \in Queries
         [] scenario = "sequential" ->
                /\ Len(inv) < SeqInvocations
                /\ \A i \in DOMAIN inv : inv[i].main.pc = "done"
                /\ user_query \in RepeatedQueries
         [] scenario = "concurrent" ->
                /\ Len(inv) < ConcInvocations
                /\ user_query \in RepeatedQueries
    /\ inv' = Append(inv, Invocation(user_query))
    /\ ready' = Append(ready, Task(Len(inv) + 1, "main"))
    /\ UNCHANGED <<scenario, rag_pipeline, memo, faults, running>>

\* the event loop runs the next ready task
Dispatch ==
    /\ running = Idle
    /\ ready # <<>>
    /\ running' = Head(ready)
    /\ ready' = Tail(ready)
    /\ UNCHANGED <<scenario, rag_pipeline, memo, faults, inv>>

\* multi_llm_client.py, lines 171-184, and llm_client.py, lines 106-127:
\* classify_query_type raises nothing; when the backends gave no completion it
\* returns a classification of its own
classify_query_type(completion) ==
    IF completion.ok THEN completion.v
    ELSE [query_type |-> VECTOR_RETRIEVAL, has_confidence |-> TRUE, confidence |-> 30,
          extracted_entities |-> [parameters |-> <<>>, regions |-> <<>>]]

\* line 94: the LLM classifier is asked unless a pattern classifies the query
ClassifierCalls(user_query) ==
    IF ClassifiedByPattern(user_query) THEN <<>>
    ELSE [call \in {<<"classify_query_type", user_query>>} |-> ClassifierReplies(user_query)]

\* line 36: classification = query_classifier.classify_query(user_query)
Classify(i) ==
    /\ Runs(i, "main", "classify")
    /\ \E a \in Answers(ClassifierCalls(inv[i].user_query)) :
         /\ Heard(a)
         /\ inv' = [inv EXCEPT
                      ![i].classification =
                          classify_query(inv[i].user_query,
                                         IF DOMAIN a = {} THEN Unavailable
                                         ELSE Returned(classify_query_type(Only(a)))),
                      ![i].calls = @ \cup DOMAIN a,
                      ![i].main.pc = "coverage"]
    /\ UNCHANGED <<scenario, rag_pipeline, ready, running>>

\* line 41: coverage_info = geographic_validator.get_coverage_info()
CoverageCalls == [call \in {<<"get_coverage_info">>} |-> {get_coverage_info}]

\* lines 40-50
CoverageResult(user_query, coverage_info) ==
    IF coverage_info.ok
    THEN [answer |-> CoverageAnswer(coverage_info.v),
          classification |-> [query_type |-> "coverage_info"],
          data |-> [records |-> <<>>],
          visualization |-> <<>>,
          response_id |-> "coverage_info"]
    ELSE process_query_except(user_query, coverage_info.e)

\* lines 39-50: the query asks what data there is
CoverageInfo(i) ==
    /\ Runs(i, "main", "coverage")
    /\ ContainsAny(Lower(inv[i].user_query), coverage_phrases)
    /\ \E a \in Answers(CoverageCalls) :
         /\ Heard(a)
         /\ inv' = Finished(i, DOMAIN a, CoverageResult(inv[i].user_query, Only(a)))
    /\ running' = Idle
    /\ UNCHANGED <<scenario, rag_pipeline, ready>>

\* line 53: validation_result = geographic_validator.validate_geographic_coverage(user_query)
ValidatorCalls(user_query) ==
    [call \in {<<"validate_geographic_coverage", user_query>>} |->
        {validate_geographic_coverage(user_query)}]

\* lines 54-64
Refusal(user_query, classification, validation_result) ==
    IF validation_result.ok
    THEN [answer |-> validation_result.v.message,
          classification |-> classification,
          data |-> [records |-> <<>>],
          visualization |-> <<>>,
          response_id |-> "geographic_validation_failed"]
    ELSE process_query_except(user_query, validation_result.e)

\* an orchestrator that asks the validator and goes on whatever it says
ValidateAndGoOn(i) ==
    /\ Runs(i, "main", "coverage")
    /\ ~ContainsAny(Lower(inv[i].user_query), coverage_phrases)
    /\ \E a \in Answers(ValidatorCalls(inv[i].user_query)) :
         /\ Heard(a)
         /\ inv' = [inv EXCEPT ![i].calls = @ \cup DOMAIN a, ![i].main.pc = "force"]
         /\ running' = running
    /\ UNCHANGED <<scenario, rag_pipeline, ready>>

\* lines 52-64: the geographic validator is asked
Validate(i) ==
    /\ Runs(i, "main", "coverage")
    /\ ~ContainsAny(Lower(inv[i].user_query), coverage_phrases)
    /\ \E a \in Answers(ValidatorCalls(inv[i].user_query)) :
         /\ Heard(a)
         /\ IF Only(a).ok /\ Only(a).v.is_valid
            THEN /\ inv' = [inv EXCEPT ![i].calls = @ \cup DOMAIN a, ![i].main.pc = "force"]
                 /\ running' = running
            ELSE /\ inv' = Finished(i, DOMAIN a,
                                    Refusal(inv[i].user_query, inv[i].classification, Only(a)))
                 /\ running' = Idle
    /\ UNCHANGED <<scenario, rag_pipeline, ready>>

\* lines 66-72: the SQL force override
ForceSQL(i) ==
    /\ Runs(i, "main", "force")
    /\ inv' = [inv EXCEPT ![i].classification = Forced(inv[i].user_query, @),
                          ![i].main.pc = "retrieve"]
    /\ UNCHANGED <<scenario, rag_pipeline, memo, faults, ready, running>>

\* a retrieval of frame f returns data: to _retrieve_data when f is the main
\* frame, and otherwise to the gather of the hybrid path
Delivered(base, i, f, data) ==
    IF f = "main"
    THEN [base EXCEPT ![i].retrieved_data = data, ![i].main.data = <<>>, ![i].main.pc = "stats"]
    ELSE [base EXCEPT ![i][f].data = data, ![i][f].pc = "done"]

\* after a return the main task goes on; a task of the hybrid path ends, and
\* the gather wakes the main task when the other task has ended too
Yield(i, f) ==
    IF f = "main" THEN UNCHANGED <<ready, running>>
    ELSE /\ running' = Idle
         /\ ready' = IF inv[i][IF f = "sql" THEN "vec" ELSE "sql"].pc = "done"
                     THEN Append(ready, Task(i, "main")) ELSE ready

\* lines 143-163: _retrieve_data enters the SQL path or the vector path
Retrieve(i) ==
    /\ Runs(i, "main", "retrieve")
    /\ inv[i].classification.query_type # HYBRID_RETRIEVAL
    /\ inv' = [inv EXCEPT
                 ![i].main.pc = CASE inv[i].classification.query_type = SQL_RETRIEVAL -> "sql_generate"
                                  [] inv[i].classification.query_type = VECTOR_RETRIEVAL -> "vector_search"
                                  [] OTHER -> "stats"]
    /\ UNCHANGED <<scenario, rag_pipeline, memo, faults, ready, running>>

\* a hybrid path that creates its two tasks and goes on without waiting for them
HybridSpawnNoWait(i) ==
    /\ Runs(i, "main", "retrieve")
    /\ inv[i].classification.query_type = HYBRID_RETRIEVAL
    /\ inv' = [inv EXCEPT ![i].main.pc = "stats",
                          ![i].sql = Frame("sql_generate", inv[i].main.max_results \div 2),
                          ![i].vec = Frame("vector_search", inv[i].main.max_results \div 2)]
    /\ ready' = ready \o <<Task(i, "sql"), Task(i, "vec")>>
    /\ UNCHANGED <<scenario, rag_pipeline, memo, faults, running>>

\* lines 314-318: the hybrid path creates its two tasks and waits for both
HybridSpawn(i) ==
    /\ Runs(i, "main", "retrieve")
    /\ inv[i].classification.query_type = HYBRID_RETRIEVAL
    /\ inv' = [inv EXCEPT ![i].main.pc = "gather",
                          ![i].sql = Frame("sql_generate", inv[i].main.max_results \div 2),
                          ![i].vec = Frame("vector_search", inv[i].main.max_results \div 2)]
    /\ ready' = ready \o <<Task(i, "sql"), Task(i, "vec")>>
    /\ running' = Idle
    /\ UNCHANGED <<scenario, rag_pipeline, memo, faults>>

\* a hybrid path that composes its data from the vector task alone
HybridGatherVectorOnly(i) ==
    /\ Runs(i, "main", "gather")
    /\ inv[i].sql.pc = "done" /\ inv[i].vec.pc = "done"
    /\ inv' = [inv EXCEPT
                 ![i].retrieved_data =
                     [sql_results |-> <<>>,
                      vector_results |-> Get(inv[i].vec.data, "vector_results", <<>>),
                      hybrid_results |-> [combination_strategy |-> "parallel_retrieval"],
                      sql_query |-> "",
                      search_query |-> inv[i].user_query,
                      generation_method |-> "intelligent"],
                 ![i].main.pc = "stats"]
    /\ UNCHANGED <<scenario, rag_pipeline, memo, faults, ready, running>>

\* lines 320-334: both tasks have ended; the hybrid path composes its data
HybridGather(i) ==
    /\ Runs(i, "main", "gather")
    /\ inv[i].sql.pc = "done" /\ inv[i].vec.pc = "done"
    /\ LET sql_data == inv[i].sql.data
           vector_data == inv[i].vec.data
       IN  inv' = [inv EXCEPT
                     ![i].retrieved_data =
                         [sql_results |-> Get(sql_data, "sql_results", <<>>),
                          vector_results |-> Get(vector_data, "vector_results", <<>>),
                          hybrid_results |-> [sql_component |-> sql_data,
                                              vector_component |-> vector_data,
                                              combination_strategy |-> "parallel_retrieval"],
                          sql_query |-> Get(sql_data, "sql_query", ""),
                          search_query |-> Get(vector_data, "search_query", inv[i].user_query),
                          generation_method |-> Get(sql_data, "generation_method", "intelligent")],
                     ![i].main.pc = "stats"]
    /\ UNCHANGED <<scenario, rag_pipeline, memo, faults, ready, running>>

\* intelligent_sql_generator.py, line 345: an example of the system prompt,
\* which is part of every request for a statement
sql_prompt_example == "Show profile number 1902681 trajectories as map coordinates"

\* line 364: the LLM is asked for the statement unless a direct shape applies
SynthesizerCalls(user_query, long) ==
    IF NeedsLLM(user_query)
    THEN ProviderCalls("sql", user_query, user_query \o "\n" \o sql_prompt_example, long)
    ELSE <<>>

\* lines 181-198: the frame after the synthesis
Synthesized(i, f, gen, calls, asked) ==
    [inv EXCEPT
       ![i][f].gen = gen,
       ![i][f].sql_query = WithLimit(gen),
       ![i][f].pc = IF gen.sql_query = "" THEN "vector_search" ELSE "sql_count",
       ![i].synthesized = TRUE,
       ![i].calls = @ \cup calls,
       ![i].gateway = @ \cup asked]

\* lines 181-198: the statement is synthesized and gets its LIMIT
SqlGenerate(i, f) ==
    /\ Runs(i, f, "sql_generate")
    /\ \E long \in Overlong :
         LET chain == SynthesizerCalls(inv[i].user_query, long)
         IN  \E a \in Attempts(chain, SQLReplies(inv[i].user_query)) :
               LET asked == Asked(chain, a)
               IN  /\ Heard(a)
                   /\ inv' = Synthesized(i, f,
                                 generate_sql_from_query(
                                     inv[i].user_query,
                                     IF asked = {} THEN Unavailable
                                     ELSE (CHOOSE g \in asked : TRUE).outcome),
                                 DOMAIN a, asked)
    /\ UNCHANGED <<scenario, rag_pipeline, ready, running>>

\* lines 203-204: the COUNT companion is executed when there is one
CountCalls(count_query) ==
    Statements(IF count_query = None \/ count_query = "" THEN {} ELSE {count_query})

\* lines 205-211
CountedBy(count_result) ==
    IF ~count_result.ok THEN "0"
    ELSE IF count_result.v = <<>> THEN "0"
    ELSE IF "count" \notin DOMAIN count_result.v[1] THEN "0"
    ELSE count_result.v[1].count

\* lines 200-213: the COUNT companion is executed first
SqlCount(i, f) ==
    /\ Runs(i, f, "sql_count")
    /\ \E a \in Answers(CountCalls(_get_count_query(inv[i][f].sql_query))) :
         /\ Heard(a)
         /\ inv' = [inv EXCEPT
                      ![i][f].total_count =
                          IF inv[i][f].gen.generation_method = "nearest_floats_direct"
                             \/ DOMAIN a = {}
                          THEN "0" ELSE CountedBy(Only(a)),
                      ![i][f].pc = "sql_execute",
                      ![i].calls = @ \cup DOMAIN a]
    /\ UNCHANGED <<scenario, rag_pipeline, ready, running>>

\* a _sql_retrieval that returns empty data when the store raises
SqlExecuteNoFallback(i, f) ==
    /\ Runs(i, f, "sql_execute")
    /\ \E a \in Answers(Statements({inv[i][f].sql_query})) :
         /\ Heard(a)
         /\ inv' = Delivered([inv EXCEPT ![i].calls = @ \cup DOMAIN a], i, f,
                               [sql_results |-> IF Only(a).ok THEN Only(a).v ELSE <<>>,
                                sql_query |-> inv[i][f].sql_query,
                                vector_results |-> <<>>,
                                hybrid_results |-> <<>>])
         /\ Yield(i, f)
    /\ UNCHANGED <<scenario, rag_pipeline>>

\* lines 215-251: the statement is executed; its total count and its text are
\* stored on the pipeline object; any exception leads to the vector path
SqlExecute(i, f) ==
    /\ Runs(i, f, "sql_execute")
    /\ LET frame == inv[i][f]
       IN  \E a \in Answers(Statements({frame.sql_query})) :
             /\ Heard(a)
             /\ IF Only(a).ok
                THEN LET sql_results == Only(a).v
                         attributes ==
                             [has_current |-> TRUE,
                              _current_total_count |->
                                  IF frame.gen.generation_method = "nearest_floats_direct"
                                  THEN NatStr(Len(sql_results)) ELSE frame.total_count,
                              _current_sql_query |-> frame.sql_query]
                         data ==
                             [sql_results |-> sql_results,
                              sql_query |-> frame.sql_query,
                              generation_method |-> IF frame.gen.generation_method = None
                                                    THEN "intelligent"
                                                    ELSE frame.gen.generation_method,
                              generation_error |-> frame.gen.error,
                              vector_results |-> <<>>,
                              hybrid_results |-> <<>>]
                     IN  /\ rag_pipeline' = attributes
                         /\ inv' = Delivered([inv EXCEPT ![i].wrote = attributes,
                                                         ![i].calls = @ \cup DOMAIN a], i, f, data)
                         /\ Yield(i, f)
                ELSE /\ inv' = [inv EXCEPT ![i][f].pc = "vector_search", ![i].calls = @ \cup DOMAIN a]
                     /\ UNCHANGED <<rag_pipeline, ready, running>>
    /\ UNCHANGED scenario

\* lines 271-273 and 300-307: what the vector path returns when a search raises
VectorError(e) ==
    [sql_results |-> <<>>, vector_results |-> <<>>,
     error |-> "Vector retrieval failed: " \o e, hybrid_results |-> <<>>]

\* line 257: vector_db_manager.semantic_search(query, limit=max_results)
SearchCalls(query, limit) ==
    [call \in {<<"semantic_search", query, NatStr(limit)>>} |-> {semantic_search(query, limit)}]

\* lines 257-263: the semantic search and the geographic filter
VectorSearch(i, f) ==
    /\ Runs(i, f, "vector_search")
    /\ \E a \in Answers(SearchCalls(inv[i].user_query, inv[i][f].max_results)) :
         /\ Heard(a)
         /\ IF Only(a).ok
            THEN /\ inv' = [inv EXCEPT
                              ![i][f].vector_results =
                                  _filter_by_geographic_region(inv[i].user_query, Only(a).v),
                              ![i][f].data = <<>>,
                              ![i][f].pc = "vector_additional",
                              ![i].calls = @ \cup DOMAIN a]
                 /\ UNCHANGED <<ready, running>>
            ELSE /\ inv' = Delivered([inv EXCEPT ![i].calls = @ \cup DOMAIN a], i, f,
                                     VectorError(Only(a).e))
                 /\ Yield(i, f)
    /\ UNCHANGED <<scenario, rag_pipeline>>

\* lines 268-276: the searches by parameter and by region, in the order they are made
AdditionalSearches(classification) ==
    LET entities == Get(classification, "extracted_entities", NoEntities)
    IN  [k \in DOMAIN entities.parameters |-> <<"search_by_parameter", entities.parameters[k]>>]
        \o [k \in DOMAIN entities.regions |-> <<"search_by_region", entities.regions[k]>>]

\* lines 270 and 275: the search by a parameter or by a region
AdditionalCalls(search) ==
    [call \in {search} |-> {IF call[1] = "search_by_parameter"
                            THEN search_by_parameter(call[2])
                            ELSE search_by_region(call[2])}]

\* lines 268-276: one more search; its hits are collected in the frame's data
VectorAdditional(i, f) ==
    /\ Runs(i, f, "vector_additional")
    /\ Len(inv[i][f].data) < Len(AdditionalSearches(inv[i].classification))
    /\ \E a \in Answers(AdditionalCalls(
                         AdditionalSearches(inv[i].classification)[Len(inv[i][f].data) + 1])) :
         /\ Heard(a)
         /\ IF Only(a).ok
            THEN /\ inv' = [inv EXCEPT ![i][f].data = Append(@, Only(a).v),
                                       ![i].calls = @ \cup DOMAIN a]
                 /\ UNCHANGED <<ready, running>>
            ELSE /\ inv' = Delivered([inv EXCEPT ![i].calls = @ \cup DOMAIN a], i, f,
                                     VectorError(Only(a).e))
                 /\ Yield(i, f)
    /\ UNCHANGED <<scenario, rag_pipeline>>

\* the concatenation of a sequence of sequences
RECURSIVE Flat(_)
Flat(seqs) == IF seqs = <<>> THEN <<>> ELSE Head(seqs) \o Flat(Tail(seqs))

\* lines 278-298: the hits are combined and deduplicated
VectorReturn(i, f) ==
    /\ Runs(i, f, "vector_additional")
    /\ Len(inv[i][f].data) = Len(AdditionalSearches(inv[i].classification))
    /\ inv' = Delivered(inv, i, f,
                 [sql_results |-> <<>>,
                  vector_results |-> Deduplicate(inv[i][f].vector_results \o Flat(inv[i][f].data),
                                                 <<>>, inv[i][f].max_results),
                  search_query |-> inv[i].user_query,
                  entities_searched |-> Get(inv[i].classification, "extracted_entities", NoEntities),
                  hybrid_results |-> <<>>])
    /\ Yield(i, f)
    /\ UNCHANGED <<scenario, rag_pipeline, memo, faults>>

\* line 167: db_manager.get_database_stats()
StatsCalls == [call \in {<<"get_database_stats">>} |-> {DatabaseStats}]

\* lines 165-172
WithStats(data, stats) ==
    IF stats.ok
    THEN [k \in DOMAIN data \cup {"database_stats"} |->
            IF k = "database_stats" THEN stats.v ELSE data[k]]
    ELSE [k \in DOMAIN data \cup {"error"} |-> IF k = "error" THEN stats.e ELSE data[k]]

\* lines 165-172: the database statistics are added
Stats(i) ==
    /\ Runs(i, "main", "stats")
    /\ \E a \in Answers(StatsCalls) :
         /\ Heard(a)
         /\ inv' = [inv EXCEPT
                      ![i].retrieved_data = WithStats(@, Only(a)),
                      ![i].calls = @ \cup DOMAIN a,
                      ![i].main.pc = "respond"]
    /\ UNCHANGED <<scenario, rag_pipeline, ready, running>>

\* line 365: the tokens that select the data-based response
data_tokens ==
    {"show", "find", "get", "list", "display", "float", "data", "profile", "temperature",
     "salinity", "trajectory", "trajectories", "location", "coordinates", "map", "bay",
     "ocean", "sea"}

\* The value _generate_response returns is a text or, at lines 374-380, a
\* dict; a text s is written [text |-> s].
Text(s) == [text |-> s]

\* lines 374-380
NoDataAnswer ==
    [answer |-> "No data available for your query.",
     classification |-> [query_type |-> "no_data"],
     data |-> [records |-> <<>>],
     visualization |-> <<>>,
     response_id |-> "no_data_available"]

\* a test that takes a reply of 50 characters too
MeaningfulFrom50(response) ==
    /\ Strip(response) # ""
    /\ ~Contains(Lower(response), "query processed successfully")
    /\ ~Contains(Lower(response), "no data found")
    /\ ~Contains(Lower(response), "no data available")
    /\ Len(response) >= 50

\* lines 386-390: the reply of the LLM is taken as the answer
Meaningful(response) ==
    /\ Strip(response) # ""
    /\ ~Contains(Lower(response), "query processed successfully")
    /\ ~Contains(Lower(response), "no data found")
    /\ ~Contains(Lower(response), "no data available")
    /\ Len(response) > 50

\* lines 402-404
ResponseError(e) ==
    Text("I found some relevant data for your query, but encountered an error while generating the response. Error: "
         \o e)

\* which formatter _generate_response selects, lines 352-400
Formatter(query, retrieved_data) ==
    IF Get(retrieved_data, "sql_results", <<>>) = <<>> /\ Get(retrieved_data, "vector_results", <<>>) = <<>>
    THEN "no_results"
    ELSE IF _is_year_comparison_query(query, retrieved_data) THEN "year_comparison"
    ELSE IF _is_float_not_found_query(query, Get(retrieved_data, "sql_results", <<>>))
    THEN "float_not_found"
    ELSE IF ContainsAny(Lower(query), data_tokens) THEN "data"
    ELSE "llm"

\* the statements a formatter looks up: lines 878, 1009-1050 and 1127
Lookups(formatter, query, retrieved_data, float_id) ==
    CASE formatter = "no_results" ->
             IF float_id = None THEN {} ELSE {DateRangeQuery(float_id)}
      [] formatter = "year_comparison" ->
             YearComparisonLookups(query, retrieved_data.sql_results)
      [] formatter = "float_not_found" ->
             IF float_id = None THEN {} ELSE {SimilarQuery(float_id)}
      [] OTHER -> {}

\* line 384: multi_llm_client.generate_final_response(query, retrieved_data, query_type)
\* the calls of the backends it leads to: those of the gateway's generate_response
\* and, last, that of GroqLLMClient.generate_final_response
FinalCalls(formatter, query, long) ==
    IF formatter = "llm"
    THEN Append(ProviderCalls("final", query, query, long), BackendCall("groq", "final_groq", query))
    ELSE <<>>

\* the answers to the calls _generate_response makes: the lookups of its
\* formatter, or the LLM
ResponseAnswers(formatter, query, retrieved_data, chain) ==
    IF formatter = "llm" THEN Attempts(chain, FinalRepliesFor(query))
    ELSE Answers(Statements(Lookups(formatter, query, retrieved_data, ExtractFloatId(query))))

\* the outcome of each statement a formatter looked up
Looked(a) == [stmt \in {call[2] : call \in DOMAIN a} |-> a[<<"execute_query", stmt>>]]

\* lines 356-357 and 402-404
YearAnswer(year_response) ==
    IF year_response.ok THEN Text(year_response.v) ELSE ResponseError(year_response.e)

\* lines 365-404: the data-based response, unless the reply of the LLM is taken
DataOrLLM(formatter, response, data_response) ==
    IF formatter = "llm" /\ Meaningful(response) THEN Text(response)
    ELSE IF data_response.ok THEN Text(data_response.v)
    ELSE IF formatter = "llm" THEN ResponseError(data_response.e)
    ELSE NoDataAnswer

\* lines 352-404, for the formatter the query and the data select
ResponseBy(formatter, query, classification, retrieved_data, self, a, response) ==
    CASE formatter = "no_results" ->
             Text(_generate_no_results_response(query, classification, Looked(a)))
      [] formatter = "year_comparison" ->
             YearAnswer(_generate_year_comparison_response(
                            query, Get(retrieved_data, "sql_results", <<>>), Looked(a)))
      [] formatter = "float_not_found" ->
             Text(_generate_float_not_found_response(query, Looked(a)))
      [] OTHER ->
             DataOrLLM(formatter, response,
                       _generate_data_response(query, retrieved_data,
                                               classification.query_type, self))

\* lines 341-404; a holds the answers to the lookups, response the text of the
\* LLM, self the attributes of the pipeline object
_generate_response(query, classification, retrieved_data, self, a, response) ==
    ResponseBy(Formatter(query, retrieved_data), query, classification, retrieved_data, self,
               a, response)

\* whether _generate_response reads the attributes of the pipeline object
ReadsAttributes(formatter, response) ==
    \/ formatter = "data"
    \/ formatter = "llm" /\ ~Meaningful(response)

\* line 78, when the LLM, asked through the calls of chain, gave response
Responded(i, formatter, chain, a, response) ==
    [inv EXCEPT
       ![i].final_response =
           ResponseBy(formatter, inv[i].user_query, inv[i].classification,
                      inv[i].retrieved_data, rag_pipeline, a, response),
       ![i].seen = IF ReadsAttributes(formatter, response) THEN rag_pipeline ELSE @,
       ![i].calls = @ \cup DOMAIN a,
       ![i].gateway = @ \cup Asked(chain, a),
       ![i].main.pc = "assemble"]

\* line 78, for the formatter the query and the data select
RespondBy(i, formatter) ==
    \E long \in Overlong :
       LET chain == FinalCalls(formatter, inv[i].user_query, long)
       IN  \E a \in ResponseAnswers(formatter, inv[i].user_query, inv[i].retrieved_data, chain) :
             /\ Heard(a)
             /\ inv' = Responded(i, formatter, chain, a,
                                 IF chain = <<>> THEN ""
                                 ELSE generate_final_response(chain, a))

\* line 78: final_response = await self._generate_response(...)
Respond(i) ==
    /\ Runs(i, "main", "respond")
    /\ RespondBy(i, Formatter(inv[i].user_query, inv[i].retrieved_data))
    /\ UNCHANGED <<scenario, rag_pipeline, ready, running>>

\* line 103: the tokens that ask for a visualization
visualization_tokens ==
    {"map", "coordinates", "visualization", "plot", "geojson", "trajectory", "trajectories"}

\* bool(v) of a metadata value
Truthy(v) == v # None /\ v # "" /\ (IsNumber(v) => ParseSigned(v) # 0)

\* lines 114-125: the located hits as rows
HitRows(hits) ==
    [k \in DOMAIN hits |->
        [latitude |-> FloatStr(ParseSigned(hits[k].metadata.latitude)),
         longitude |-> FloatStr(ParseSigned(hits[k].metadata.longitude)),
         profile_date |-> Get(hits[k].metadata, "date", None),
         profile_id |-> Get(hits[k].metadata, "profile_id", None),
         float_id |-> Get(hits[k].metadata, "float_id", None)]]

\* line 117: the hit has a latitude and a longitude
Located(hit) ==
    /\ Truthy(Get(Get(hit, "metadata", <<>>), "latitude", None))
    /\ Truthy(Get(Get(hit, "metadata", <<>>), "longitude", None))

\* lines 110-125: the rows handed to the visualization generator
results_for_visualization(retrieved_data) ==
    IF Get(retrieved_data, "sql_results", <<>>) # <<>> THEN retrieved_data.sql_results
    ELSE HitRows(Filter(Get(retrieved_data, "vector_results", <<>>), Located))

\* lines 103-108
should_generate_visualization(user_query, retrieved_data) ==
    \/ ContainsAny(Lower(user_query), visualization_tokens)
    \/ /\ Get(retrieved_data, "generation_method", None) = "year_comparison_direct"
       /\ Get(retrieved_data, "sql_results", <<>>) # <<>>

\* lines 109-134
Visualization(payload) == IF payload.ok THEN payload.v ELSE [error |-> payload.e]

\* lines 81-134: the Result of an invocation that went through retrieval
Result(user_query, classification, retrieved_data, final_response) ==
    [success |-> TRUE,
     query |-> user_query,
     classification |-> classification,
     retrieved_data |-> retrieved_data,
     response |-> final_response,
     visualization |->
         IF should_generate_visualization(user_query, retrieved_data)
         THEN Visualization(build_visualization_payload(results_for_visualization(retrieved_data)))
         ELSE <<>>,
     metadata |-> [query_type |-> classification.query_type,
                   confidence |-> classification.confidence,
                   data_sources_used |-> _get_data_sources_used(retrieved_data),
                   total_results |-> _count_total_results(retrieved_data)]]

\* lines 81-134: the Result is assembled and process_query returns
Assemble(i) ==
    /\ Runs(i, "main", "assemble")
    /\ inv' = Finished(i, {}, Result(inv[i].user_query, inv[i].classification,
                                     inv[i].retrieved_data, inv[i].final_response))
    /\ running' = Idle
    /\ UNCHANGED <<scenario, rag_pipeline, memo, faults, ready>>

vars == <<scenario, rag_pipeline, memo, faults, inv, ready, running>>

InitOf(s) ==
    /\ scenario = s
    /\ rag_pipeline = NoAttributes
    /\ memo = <<>>
    /\ faults = 0
    /\ inv = <<>>
    /\ ready = <<>>
    /\ running = Idle

Init == InitOf("single")
InitSeq == InitOf("sequential")
InitConc == InitOf("concurrent")

Frames == {"main", "sql", "vec"}

Next ==
    \/ \E user_query \in Queries : Arrive(user_query)
    \/ Dispatch
    \/ \E i \in DOMAIN inv : Classify(i)
    \/ \E i \in DOMAIN inv : CoverageInfo(i)
    \/ \E i \in DOMAIN inv : Validate(i)
    \/ \E i \in DOMAIN inv : ForceSQL(i)
    \/ \E i \in DOMAIN inv : Retrieve(i)
    \/ \E i \in DOMAIN inv : HybridSpawn(i)
    \/ \E i \in DOMAIN inv : HybridGather(i)
    \/ \E i \in DOMAIN inv, f \in Frames : SqlGenerate(i, f)
    \/ \E i \in DOMAIN inv, f \in Frames : SqlCount(i, f)
    \/ \E i \in DOMAIN inv, f \in Frames : SqlExecute(i, f)
    \/ \E i \in DOMAIN inv, f \in Frames : VectorSearch(i, f)
    \/ \E i \in DOMAIN inv, f \in Frames : VectorAdditional(i, f)
    \/ \E i \in DOMAIN inv, f \in Frames : VectorReturn(i, f)
    \/ \E i \in DOMAIN inv : Stats(i)
    \/ \E i \in DOMAIN inv : Respond(i)
    \/ \E i \in DOMAIN inv : Assemble(i)

\* one invocation
Spec == Init /\ [][Next]_vars
\* invocations one after the other on the same pipeline object
SpecSeq == InitSeq /\ [][Next]_vars
\* invocations that overlap on the same pipeline object
SpecConc == InitConc /\ [][Next]_vars

(***************************************************************************)
(* generate_sql_from_query on its own: _sql_retrieval has reached line 181 *)
(* with a query drawn from the queries below, and synthesizes a statement. *)
(***************************************************************************)

\* the two numbers of a coordinate, and its hemisphere letters in either case
Latitudes == {"20", "12.5"}
Longitudes == {"70"}
LatitudeLetters == {"N", "S", "n", "s"}
LongitudeLetters == {"E", "W", "e", "w"}
CoordinateForms == 1..3
CoordinatePrefixes == {"profiles at ", "nearest floats to "}

\* a coordinate as users write it
CoordinateText(form, a, ns, b, ew) ==
    CASE form = 1 -> a \o ns \o ", " \o b \o ew
      [] form = 2 -> a \o "°" \o ns \o " " \o b \o "°" \o ew
      [] form = 3 -> a \o " degrees " \o ns \o ", " \o b \o " degrees " \o ew

\* the queries with a coordinate
CoordinateQueries ==
    {p \o CoordinateText(form, a, ns, b, ew) :
        p \in CoordinatePrefixes, form \in CoordinateForms, a \in Latitudes,
        ns \in LatitudeLetters, b \in Longitudes, ew \in LongitudeLetters}

\* one phrase for the trigger of each direct shape, in the order of the shapes
TriggerPhrases ==
    <<"floats operating for 2 years", "how many profiles in 2023",
      "nearest to 20°N, 70°E", "compare 2019 vs 2023", "at 5S, 60E">>

\* the phrases of the set ks, in order, after the phrases up to the k-th
RECURSIVE Phrased(_, _)
Phrased(ks, k) ==
    IF k > Len(TriggerPhrases) THEN ""
    ELSE (IF k \in ks THEN " " \o TriggerPhrases[k] ELSE "") \o Phrased(ks, k + 1)

\* the queries that hold the triggers of any number of direct shapes
TriggerQueries == {"argo" \o Phrased(ks, 1) : ks \in SUBSET DOMAIN TriggerPhrases}

SynthesizerQueries == CoordinateQueries \cup TriggerQueries

InitSynth ==
    /\ scenario = "single"
    /\ rag_pipeline = NoAttributes
    /\ memo = <<>>
    /\ faults = 0
    /\ \E user_query \in SynthesizerQueries :
          inv = <<[Invocation(user_query) EXCEPT !.main.pc = "sql_generate"]>>
    /\ ready = <<>>
    /\ running = Task(1, "main")

NextSynth == \E i \in DOMAIN inv : SqlGenerate(i, "main")

\* generate_sql_from_query applied to one query
SpecSynth == InitSynth /\ [][NextSynth]_vars

(***************************************************************************)
(* Properties of process_query.                                            *)
(***************************************************************************)

\* invocation i has returned
Done(i) == inv[i].main.pc = "done"

\* the statements invocation i handed to db_manager.execute_query
Executed(i) == {call[2] : call \in {c \in inv[i].calls : c[1] = "execute_query"}}

\* no call of invocation i raised
Undisturbed(i) == \A c \in inv[i].calls : memo[c].ok

\* the value is an exception, not a dict
IsException(outcome) == DOMAIN outcome = DOMAIN Unavailable

\* the Result went through retrieval and assembly (lines 81-134)
Assembled(result) == "success" \in DOMAIN result /\ result.success

\* the answer a Result carries, as text
AnswerOf(result) ==
    IF "answer" \in DOMAIN result THEN result.answer
    ELSE IF "text" \in DOMAIN result.response THEN result.response.text
    ELSE result.response.answer

\* C1: every invocation that has ended has returned a Result, a dict with an
\* answer, and has not let an exception reach its caller, whichever calls raised
C1_ReturnsResult ==
    \A i \in DOMAIN inv :
       Done(i) => /\ ~IsException(inv[i].result)
                  /\ {"answer", "response"} \cap DOMAIN inv[i].result # {}

\* an invocation has ended in the except clause after a call raised
C1_Witness ==
    \E i \in DOMAIN inv :
       /\ Done(i)
       /\ ~Undisturbed(i)
       /\ "success" \in DOMAIN inv[i].result
       /\ ~inv[i].result.success

\* AVG, SUM, MIN or MAX applied to an array column, with or without an alias
aggregate_functions == {"avg", "sum", "min", "max"}
BareAggregateOf(fn, col) ==
    Regex(<<Lit(fn \o "("), Alt(<< <<Plus(ClsW), Lit(".")>>, <<>> >>), Lit(col \o ")")>>, IC)
HasBareAggregate(sql) ==
    \E fn \in aggregate_functions, k \in DOMAIN array_columns :
       /\ Contains(Lower(sql), array_columns[k] \o ")")
       /\ Matches(BareAggregateOf(fn, array_columns[k]), sql)

\* the validation predicate of the synthesizer as the specification words it
ValidationPredicate(sql) ==
    /\ StartsWith(Strip(Lower(sql)), "select")
    /\ Contains(Lower(sql), "from")
    /\ ContainsAny(Lower(sql), {"argo_profiles", "argo_floats"})
    /\ ~ContainsAny(Lower(sql), dangerous)
    /\ ~HasBareAggregate(sql)

\* C2: in every Result with SQL rows the recorded statement satisfies the
\* validation predicate, whichever way the statement was produced
C2_RecordedValidated ==
    \A i \in DOMAIN inv :
       Done(i) /\ Assembled(inv[i].result)
               /\ Get(inv[i].result.retrieved_data, "sql_results", <<>>) # <<>>
          => ValidationPredicate(inv[i].result.retrieved_data.sql_query)

\* C3: no statement handed to execute_query (the primary statement, the COUNT
\* companion, a lookup of a formatter) contains drop, delete, insert, update,
\* alter or create
C3_NoDangerousKeyword ==
    \A i \in DOMAIN inv : \A stmt \in Executed(i) : ~ContainsAny(Lower(stmt), dangerous)

\* C4: no executed statement applies AVG, SUM, MIN or MAX directly to an
\* array column, with or without a table alias
C4_NoBareAggregate ==
    \A i \in DOMAIN inv : \A stmt \in Executed(i) : ~HasBareAggregate(stmt)

\* C5: two invocations with the same query on the same pipeline object, with
\* the same answers of the stores and of the LLM, end with the same retrieved
\* data and the same answer, whatever was processed in between
C5_Repeatable ==
    \A i, j \in DOMAIN inv :
       /\ i < j /\ Done(i) /\ Done(j)
       /\ inv[i].user_query = inv[j].user_query
       /\ Assembled(inv[i].result) /\ Assembled(inv[j].result)
       => /\ inv[i].result.retrieved_data = inv[j].result.retrieved_data
          /\ AnswerOf(inv[i].result) = AnswerOf(inv[j].result)

\* C6: an invocation whose retrieval stored a total count and a statement, and
\* whose response shaping read them, read the ones its own retrieval stored
C6_OwnAttributes ==
    \A i \in DOMAIN inv :
       Done(i) /\ inv[i].wrote.has_current /\ inv[i].seen.has_current
          => inv[i].seen = inv[i].wrote

\* the query contains a token of line 68
HasForceToken(user_query) == ContainsAny(Lower(user_query), force_tokens)

\* the classification is SQL with confidence 1.0
IsForcedSQL(classification) ==
    /\ classification.query_type = SQL_RETRIEVAL
    /\ "confidence" \in DOMAIN classification
    /\ classification.confidence = 100

\* C7 as stated: the Result of every query with a force token carries the
\* classification SQL with confidence 1.0
C7_AlwaysForced ==
    \A i \in DOMAIN inv :
       Done(i) /\ HasForceToken(inv[i].user_query)
          => IsForcedSQL(inv[i].result.classification)

\* C7: the Result of a query with a force token that went through retrieval
\* and assembly carries the classification SQL with confidence 1.0
C7_ForcedWhenRetrieved ==
    \A i \in DOMAIN inv :
       Done(i) /\ HasForceToken(inv[i].user_query) /\ Assembled(inv[i].result)
          => IsForcedSQL(inv[i].result.classification)

\* a query with a force token, classified by the LLM, has been answered
C7_Witness ==
    \E i \in DOMAIN inv :
       /\ Done(i) /\ HasForceToken(inv[i].user_query) /\ Assembled(inv[i].result)
       /\ \E c \in inv[i].calls : c[1] = "classify_query_type"

\* the query has the form "float <F> ..." with a 7-digit identifier
IsFloatQuery(user_query) ==
    /\ StartsWith(user_query, "float ")
    /\ ExtractFloatId(user_query) # None
    /\ Len(ExtractFloatId(user_query)) = 7

\* the store holds a profile of the float
StoreHolds(float_id) == \E k \in DOMAIN argo_profiles : argo_profiles[k].float_id = float_id

\* the answer states that the float is not found
StatesNotFound(answer) ==
    Contains(Lower(answer), "not found") \/ Contains(Lower(answer), "does not exist")

\* C8: the answer to "float <F> ..." contains F when the store holds profiles
\* of F and states that the float is not found when it holds none, whichever
\* rows the executed statement returned
C8_FloatAnswer ==
    \A i \in DOMAIN inv :
       Done(i) /\ IsFloatQuery(inv[i].user_query) /\ Undisturbed(i)
          => IF StoreHolds(ExtractFloatId(inv[i].user_query))
             THEN Contains(AnswerOf(inv[i].result), ExtractFloatId(inv[i].user_query))
             ELSE StatesNotFound(AnswerOf(inv[i].result))

\* the call of the validator for a query
ValidatorCall(user_query) == <<"validate_geographic_coverage", user_query>>

\* the validator returned is_valid = false for the query of invocation i
Refused(i) ==
    /\ ValidatorCall(inv[i].user_query) \in inv[i].calls
    /\ memo[ValidatorCall(inv[i].user_query)].ok
    /\ ~memo[ValidatorCall(inv[i].user_query)].v.is_valid

\* the calls that synthesize or execute SQL or search the vector store
retrieval_callees ==
    {"groq.generate_response", "hf.generate", "execute_query", "semantic_search", "search_by_parameter",
     "search_by_region"}

\* C9: after a refusal of the validator the invocation returns the message of
\* the validator with empty records, and it has synthesized no SQL, executed
\* no statement and issued no vector search
C9_RefusalShortCircuits ==
    \A i \in DOMAIN inv :
       Refused(i) =>
          /\ ~inv[i].synthesized
          /\ \A c \in inv[i].calls : c[1] \notin retrieval_callees
          /\ Done(i) => /\ "answer" \in DOMAIN inv[i].result
                        /\ inv[i].result.answer = memo[ValidatorCall(inv[i].user_query)].v.message
                        /\ inv[i].result.data.records = <<>>

\* an invocation has returned after a refusal
C9_Witness == \E i \in DOMAIN inv : Done(i) /\ Refused(i)

\* the Results of lines 42-50 and 58-64
IsShortCircuit(result) ==
    /\ "response_id" \in DOMAIN result
    /\ result.response_id \in {"coverage_info", "geographic_validation_failed"}

\* C10: the Result of a coverage-information intent or of a refusal has the
\* shape of a successful Result: the query, a classification, retrieved data
\* with no rows and no hits, the answer in the field response, metadata, and
\* the success flag
C10_SuccessShape ==
    \A i \in DOMAIN inv :
       Done(i) /\ IsShortCircuit(inv[i].result)
          => /\ {"success", "query", "classification", "retrieved_data", "response",
                 "metadata"} \subseteq DOMAIN inv[i].result
             /\ inv[i].result.success
             /\ inv[i].result.query = inv[i].user_query
             /\ Get(inv[i].result.retrieved_data, "sql_results", <<>>) = <<>>
             /\ Get(inv[i].result.retrieved_data, "vector_results", <<>>) = <<>>

\* the calls of process_query whose exception no step catches: lines 41 and 53
escaping_callees == {"get_coverage_info", "validate_geographic_coverage"}

\* the calls of invocation i whose exception reached the except clause
Escaped(i) == {c \in inv[i].calls : c[1] \in escaping_callees /\ ~memo[c].ok}

\* the top-level fields of the Result of lines 82-95
success_fields ==
    {"success", "query", "classification", "retrieved_data", "response", "visualization",
     "metadata"}

\* the Result says that it failed, holds no rows and no hits, and its answer
\* contains the message of the exception
TellsError(result, message) ==
    /\ "success" \in DOMAIN result /\ ~result.success
    /\ result.retrieved_data.sql_results = <<>>
    /\ result.retrieved_data.vector_results = <<>>
    /\ Contains(result.response, message)

\* C11 as stated: after an exception escaped a step the Result has all the
\* top-level fields of a successful Result, success = false, no rows, no hits
\* and the message in its answer
C11_SameFields ==
    \A i \in DOMAIN inv : \A c \in Escaped(i) :
       Done(i) => /\ DOMAIN inv[i].result = success_fields
                  /\ TellsError(inv[i].result, memo[c].e)

\* C11: after an exception escaped a step the Result has the top-level fields
\* of a successful Result other than visualization, success = false, no rows,
\* no hits and the message in its answer
C11_ErrorResult ==
    \A i \in DOMAIN inv : \A c \in Escaped(i) :
       Done(i) => /\ DOMAIN inv[i].result = success_fields \ {"visualization"}
                  /\ TellsError(inv[i].result, memo[c].e)

\* an invocation has returned after an exception escaped a step
C11_Witness == \E i \in DOMAIN inv : Done(i) /\ Escaped(i) # {}

\* invocation i took the hybrid path and both of its tasks have ended
Hybrid(i) == inv[i].sql.pc = "done" /\ inv[i].vec.pc = "done"

\* the relational store raised on the primary statement of the SQL task
SqlFailed(i) ==
    /\ <<"execute_query", inv[i].sql.sql_query>> \in inv[i].calls
    /\ ~memo[<<"execute_query", inv[i].sql.sql_query>>].ok

\* the vector task ended in its except clause, lines 300-307
VectorFailed(i) == "error" \in DOMAIN inv[i].vec.data

\* C12: when both sub-retrievals of the hybrid path failed, process_query
\* returns an error Result, success = false, not a successful Result with
\* empty retrieval
C12_BothFailedIsError ==
    \A i \in DOMAIN inv :
       Done(i) /\ Hybrid(i) /\ SqlFailed(i) /\ VectorFailed(i)
          => "success" \in DOMAIN inv[i].result /\ ~inv[i].result.success

\* the hybrid path of invocation i has composed its data
Composed(i) == Get(inv[i].retrieved_data, "hybrid_results", <<>>) # <<>>

\* C13: the hybrid path composes its data only when both tasks have ended;
\* when only the SQL task failed the data hold the hits of the vector task
\* and no rows, and when only the vector task failed they hold the rows of
\* the statement and no hits
C13_HybridComposition ==
    \A i \in DOMAIN inv :
       /\ inv[i].main.pc = "gather" => inv[i].retrieved_data = EmptyData
       /\ Composed(i) =>
            /\ Hybrid(i)
            /\ SqlFailed(i) /\ ~VectorFailed(i)
                 => /\ inv[i].retrieved_data.sql_results = <<>>
                    /\ inv[i].retrieved_data.vector_results = inv[i].vec.data.vector_results
            /\ VectorFailed(i) /\ ~SqlFailed(i) /\ inv[i].sql.sql_query # ""
                 => /\ inv[i].retrieved_data.sql_results
                          = memo[<<"execute_query", inv[i].sql.sql_query>>].v
                    /\ inv[i].retrieved_data.vector_results = <<>>

\* the hybrid path has composed rows without hits after the vector task failed
C13_Witness ==
    \E i \in DOMAIN inv :
       /\ Composed(i) /\ VectorFailed(i) /\ ~SqlFailed(i)
       /\ inv[i].retrieved_data.sql_results # <<>>

\* the hybrid path has composed hits without rows after the SQL task failed
C13_WitnessSqlFailed ==
    \E i \in DOMAIN inv :
       /\ Composed(i) /\ SqlFailed(i) /\ ~VectorFailed(i)
       /\ inv[i].retrieved_data.vector_results # <<>>

\* the searches of the vector path of invocation i that raised
FailedSearches(i) ==
    {k \in DOMAIN AdditionalSearches(inv[i].classification) :
        /\ AdditionalSearches(inv[i].classification)[k] \in DOMAIN memo
        /\ ~memo[AdditionalSearches(inv[i].classification)[k]].ok}

\* what _vector_retrieval returns for the query and the entities of invocation
\* i with a budget, by the answers the vector store gave
VectorOutcome(i, budget, first, more) ==
    IF ~memo[first].ok THEN VectorError(memo[first].e)
    ELSE IF FailedSearches(i) # {} THEN VectorError(memo[more[SetMin(FailedSearches(i))]].e)
    ELSE [sql_results |-> <<>>,
          vector_results |->
              Deduplicate(_filter_by_geographic_region(inv[i].user_query, memo[first].v)
                          \o Flat([k \in DOMAIN more |-> memo[more[k]].v]), <<>>, budget),
          search_query |-> inv[i].user_query,
          entities_searched |-> Get(inv[i].classification, "extracted_entities", NoEntities),
          hybrid_results |-> <<>>]

\* the data are those of the vector path, but for what lines 165-172 add
IsVectorOutcome(data, outcome) ==
    /\ DOMAIN outcome \subseteq DOMAIN data
    /\ DOMAIN data \subseteq DOMAIN outcome \cup {"database_stats", "error"}
    /\ \A k \in DOMAIN outcome \ {"error"} : data[k] = outcome[k]

\* the store raised on the primary statement of the SQL-only path
SqlOnlyFailed(i) ==
    /\ inv[i].sql.pc = "unused"
    /\ inv[i].main.sql_query # ""
    /\ <<"execute_query", inv[i].main.sql_query>> \in inv[i].calls
    /\ ~memo[<<"execute_query", inv[i].main.sql_query>>].ok

\* C14: when the SQL-only path has no statement or the store raises on its
\* primary statement, the invocation ends with the outcome of the vector path
\* for the same query, entities and budget, not with a failure
C14_DegradesToVector ==
    \A i \in DOMAIN inv :
       Done(i) /\ SqlOnlyFailed(i)
          => /\ Assembled(inv[i].result)
             /\ <<"semantic_search", inv[i].user_query, NatStr(max_sql_results)>> \in inv[i].calls
             /\ IsVectorOutcome(inv[i].result.retrieved_data,
                                VectorOutcome(i, max_sql_results,
                                    <<"semantic_search", inv[i].user_query, NatStr(max_sql_results)>>,
                                    AdditionalSearches(inv[i].classification)))

\* an invocation has returned hits after the store raised on its statement
C14_Witness ==
    \E i \in DOMAIN inv :
       /\ Done(i) /\ SqlOnlyFailed(i) /\ Assembled(inv[i].result)
       /\ inv[i].result.retrieved_data.vector_results # <<>>

\* the backends asked for the final response of invocation i, each one of the
\* gateway and, after them, Groq once more, have all failed
AllProvidersFailed(i) ==
    /\ BackendCall("groq", "final_groq", inv[i].user_query) \in inv[i].calls
    /\ \A c \in inv[i].calls :
          Len(c) = 3 /\ c[2] \in {"final", "final_groq"} => ~memo[c].ok

\* C15: when the LLM-prose branch is reached with retrieved data and the call
\* of the LLM fails on every provider, the answer is the output of the
\* raw-data formatter, not a text of the LLM client
C15_FallsBackToFormatter ==
    \A i \in DOMAIN inv :
       Done(i) /\ AllProvidersFailed(i)
          => LET data_response ==
                     _generate_data_response(inv[i].user_query, inv[i].retrieved_data,
                                             inv[i].classification.query_type, rag_pipeline)
             IN  data_response.ok => inv[i].final_response = Text(data_response.v)

\* the positions of a frame at which a retrieval is under way
retrieval_positions ==
    {"retrieve", "gather", "sql_generate", "sql_count", "sql_execute", "vector_search",
     "vector_additional", "vector_return"}

\* no frame of invocation i is in a retrieval
RetrievalEnded(i) ==
    /\ inv[i].main.pc \notin retrieval_positions
    /\ inv[i].sql.pc \in {"unused", "done"}
    /\ inv[i].vec.pc \in {"unused", "done"}

\* the step is one of the response shaping of invocation i
ShapingStep(i) == inv'[i].final_response # inv[i].final_response

\* the step is one of a retrieval of invocation i: it moves a frame that is in
\* a retrieval
RetrievalStep(i) ==
    \E f \in {"main", "sql", "vec"} :
       inv[i][f].pc \in retrieval_positions /\ inv'[i][f] # inv[i][f]

\* C16: within an invocation, the classification is there before any step of
\* a retrieval and no answer has been shaped when one is taken; the shaping
\* starts when every retrieval has ended and leaves the retrieved data alone
C16_PhasesInOrder ==
    [][\A i \in DOMAIN inv :
          /\ RetrievalStep(i)
               => /\ inv[i].classification # <<>>
                  /\ inv[i].final_response = <<>>
                  /\ inv[i].result = <<>>
          /\ ShapingStep(i)
               => /\ RetrievalEnded(i)
                  /\ inv'[i].retrieved_data = inv[i].retrieved_data]_vars

\* an invocation of the hybrid path, both tasks and the shaping done
C16_Witness ==
    \E i \in DOMAIN inv :
       Done(i) /\ Hybrid(i) /\ inv[i].synthesized /\ inv[i].final_response # <<>>

\* the statement bounds the column by lo and hi
Bounds(sql, column, lo, hi) ==
    Contains(sql, column \o " BETWEEN " \o FloatStr(lo) \o " AND " \o FloatStr(hi))

\* C17: when geographic_direct is chosen for a query that writes a coordinate
\* as a, N or S, b, E or W, with the letters in either case, the statement
\* bounds latitude by lat-1 and lat+1 and longitude by lon-1 and lon+1, where
\* lat is a for N and -a for S and lon is b for E and -b for W
C17_GeographicBox ==
    \A i \in DOMAIN inv :
       \A p \in CoordinatePrefixes, form \in CoordinateForms, a \in Latitudes,
          ns \in LatitudeLetters, b \in Longitudes, ew \in LongitudeLetters :
          /\ inv[i].synthesized
          /\ inv[i].user_query = p \o CoordinateText(form, a, ns, b, ew)
          /\ inv[i].main.gen.generation_method = "geographic_direct"
          => LET lat == IF ns \in {"N", "n"} THEN ParseFloat(a) ELSE -ParseFloat(a)
                 lon == IF ew \in {"E", "e"} THEN ParseFloat(b) ELSE -ParseFloat(b)
             IN  /\ Bounds(inv[i].main.gen.sql_query, "latitude", lat - 100, lat + 100)
                 /\ Bounds(inv[i].main.gen.sql_query, "longitude", lon - 100, lon + 100)

\* the same with the letters in upper case only
C17_UpperCaseBox ==
    \A i \in DOMAIN inv :
       \A p \in CoordinatePrefixes, form \in CoordinateForms, a \in Latitudes,
          ns \in {"N", "S"}, b \in Longitudes, ew \in {"E", "W"} :
          /\ inv[i].synthesized
          /\ inv[i].user_query = p \o CoordinateText(form, a, ns, b, ew)
          /\ inv[i].main.gen.generation_method = "geographic_direct"
          => LET lat == IF ns = "N" THEN ParseFloat(a) ELSE -ParseFloat(a)
                 lon == IF ew = "E" THEN ParseFloat(b) ELSE -ParseFloat(b)
             IN  /\ Bounds(inv[i].main.gen.sql_query, "latitude", lat - 100, lat + 100)
                 /\ Bounds(inv[i].main.gen.sql_query, "longitude", lon - 100, lon + 100)

\* geographic_direct has been chosen for a coordinate of the southern and
\* western hemispheres written in upper case
C17_Witness ==
    \E i \in DOMAIN inv :
       /\ inv[i].synthesized
       /\ inv[i].user_query = "profiles at " \o CoordinateText(1, "12.5", "S", "70", "W")
       /\ inv[i].main.gen.generation_method = "geographic_direct"

\* the generation methods of the direct shapes, in the order of their priority
direct_methods ==
    <<"operating_duration_direct", "year_count_direct", "nearest_floats_direct",
      "year_comparison_direct", "geographic_direct">>

\* the direct shapes whose trigger the query satisfies
Triggered(user_query) == {k \in DOMAIN direct_methods : Shape(k, user_query) # NotTaken}

\* the query has a nearest/closest/near word and a coordinate with its
\* hemisphere letters
NearCoordinate(user_query) ==
    /\ ContainsAny(Lower(user_query), {"nearest", "closest", "near"})
    /\ SearchAny(coordinate_patterns, 1, user_query).start # 0

\* invocation i has called a backend for a statement
AskedForSQL(i) == \E c \in inv[i].calls : Len(c) = 3 /\ c[2] = "sql"

\* C20: of the direct shapes whose trigger a query satisfies the first in the
\* order of priority is emitted; the LLM is called only when no trigger is
\* satisfied; and a query with a nearest/closest/near word and a coordinate is
\* never answered by a shape of lower priority than nearest_floats_direct
C20_FirstShapeWins ==
    \A i \in DOMAIN inv :
       inv[i].synthesized
          => /\ Triggered(inv[i].user_query) # {}
                  => inv[i].main.gen.generation_method
                        = direct_methods[SetMin(Triggered(inv[i].user_query))]
             /\ AskedForSQL(i) => Triggered(inv[i].user_query) = {}
             /\ NearCoordinate(inv[i].user_query)
                  => inv[i].main.gen.generation_method
                        \notin {"year_comparison_direct", "geographic_direct", "intelligent_llm"}

\* the part of it that is about the order of the shapes and the call of the LLM
C20_OrderOfShapes ==
    \A i \in DOMAIN inv :
       inv[i].synthesized
          => /\ Triggered(inv[i].user_query) # {}
                  => inv[i].main.gen.generation_method
                        = direct_methods[SetMin(Triggered(inv[i].user_query))]
             /\ AskedForSQL(i) => Triggered(inv[i].user_query) = {}

\* the call of the gateway recorded in g went as generate_response is to go:
\* the preferred backend was called; the other one was called when, and only
\* when, the preferred one raised; the completion of the first backend that
\* returned is the outcome; and the outcome is an error when both raised
AsClaimed(i, g) ==
    LET preferred == g.providers[1]
        other == g.providers[2]
    IN  /\ preferred[1] # other[1]
        /\ preferred \in inv[i].calls
        /\ other \in inv[i].calls <=> ~memo[preferred].ok
        /\ memo[preferred].ok => g.outcome = memo[preferred]
        /\ ~memo[preferred].ok /\ memo[other].ok => g.outcome = memo[other]
        /\ ~g.outcome.ok <=> ~memo[preferred].ok /\ ~memo[other].ok

\* C18: a call of the gateway's generate_response tries the preferred backend
\* first and the other one once, only if the preferred one raised; it returns
\* the first completion, and raises exactly when both backends have failed
C18_GatewayFallback ==
    \A i \in DOMAIN inv : \A g \in inv[i].gateway : AsClaimed(i, g)

\* the gateway has returned the completion of the other backend after the
\* preferred one raised, and in another call has raised after both did
C18_Witness ==
    \E i \in DOMAIN inv :
       /\ \E g \in inv[i].gateway : ~memo[g.providers[1]].ok /\ g.outcome.ok
       /\ \E g \in inv[i].gateway : ~g.outcome.ok

\* the three query types
query_types == {SQL_RETRIEVAL, VECTOR_RETRIEVAL, HYBRID_RETRIEVAL}

\* the classification is of one of the three types, with a confidence in [0, 1]
WellClassified(classification) ==
    /\ "query_type" \in DOMAIN classification
    /\ classification.query_type \in query_types
    /\ "confidence" \in DOMAIN classification
    /\ classification.confidence >= 0 /\ classification.confidence <= 100

\* C19: in every Result process_query returns, the query type of the
\* classification is one of SQL, Vector and Hybrid and its confidence lies in
\* [0, 1], whatever type and confidence the LLM classifier returned
C19_WellClassified ==
    \A i \in DOMAIN inv :
       Done(i) /\ "classification" \in DOMAIN inv[i].result
          => WellClassified(inv[i].result.classification)

\* the same for the Results of the invocations that went through retrieval
\* and assembly only
C19_AssembledWellClassified ==
    \A i \in DOMAIN inv :
       Done(i) /\ Assembled(inv[i].result) => WellClassified(inv[i].result.classification)

\* the same for the Results of the queries to which the LLM classifier replied
\* with one of the three types and a confidence in [0, 1]
C19_WellClassifiedWhenReplyIs ==
    \A i \in DOMAIN inv :
       /\ Done(i) /\ Assembled(inv[i].result)
       /\ <<"classify_query_type", inv[i].user_query>> \in inv[i].calls
       /\ memo[<<"classify_query_type", inv[i].user_query>>].ok
       /\ WellClassified(memo[<<"classify_query_type", inv[i].user_query>>].v)
       => WellClassified(inv[i].result.classification)

\* invocation i has called a backend for its final response
AskedForProse(i) ==
    \E c \in inv[i].calls : Len(c) = 3 /\ c[2] \in {"final", "final_groq"}

\* C21: for a query that holds a token of the override list, with retrieved
\* data that are not empty and are neither of the year-comparison nor of the
\* float-not-found shape, the answer is the one of the raw-data formatter and
\* no LLM is called while the response is shaped
C21_DataQueriesSkipLLM ==
    \A i \in DOMAIN inv :
       /\ Done(i) /\ Assembled(inv[i].result)
       /\ ContainsAny(Lower(inv[i].user_query), force_tokens)
       /\ Formatter(inv[i].user_query, inv[i].retrieved_data) \in {"data", "llm"}
       => /\ ~AskedForProse(i)
          /\ LET data_response ==
                     _generate_data_response(inv[i].user_query, inv[i].retrieved_data,
                                             inv[i].classification.query_type, rag_pipeline)
             IN  data_response.ok => inv[i].final_response = Text(data_response.v)

\* the same for the tokens that the response shaping looks for
C21_DataTokensSkipLLM ==
    \A i \in DOMAIN inv :
       /\ Done(i) /\ Assembled(inv[i].result)
       /\ ContainsAny(Lower(inv[i].user_query), data_tokens)
       /\ Formatter(inv[i].user_query, inv[i].retrieved_data) \in {"data", "llm"}
       => /\ ~AskedForProse(i)
          /\ LET data_response ==
                     _generate_data_response(inv[i].user_query, inv[i].retrieved_data,
                                             inv[i].classification.query_type, rag_pipeline)
             IN  data_response.ok => inv[i].final_response = Text(data_response.v)

\* the call that executes a statement
Execution(stmt) == <<"execute_query", stmt>>

\* invocation i has executed the statement it stored on the pipeline object,
\* after its COUNT companion had raised
CountRaised(i) ==
    /\ inv[i].wrote.has_current
    /\ Execution(inv[i].wrote._current_sql_query) \in inv[i].calls
    /\ memo[Execution(inv[i].wrote._current_sql_query)].ok
    /\ Execution(_get_count_query(inv[i].wrote._current_sql_query)) \in inv[i].calls
    /\ ~memo[Execution(_get_count_query(inv[i].wrote._current_sql_query))].ok

\* C22: when the execution of the COUNT companion raises, the total count
\* handed to the response shaping is the number of rows the primary statement
\* returned
C22_CountFallsBackToRows ==
    \A i \in DOMAIN inv :
       CountRaised(i)
          => inv[i].wrote._current_total_count
                = NatStr(Len(memo[Execution(inv[i].wrote._current_sql_query)].v))

(***************************************************************************)
(* The retrieval of one classified query with a result budget             *)
(***************************************************************************)

\* the values of max_results process_query is called with (line 28)
ResultBudgets == {1, 2, 10}

\* queries that the validator lets pass (lines 52-64), two of them with a region
RetrievalQueries ==
    {"how do argo buoys work", "why do argo buoys drift", "buoys in the arabian sea",
     "arabian buoys"}

\* process_query(user_query, max_results) at line 75, after lines 36 and 66-72
InitVector ==
    /\ scenario = "single"
    /\ rag_pipeline = NoAttributes
    /\ memo = <<>>
    /\ faults = 0
    /\ \E user_query \in RetrievalQueries, reply \in ClassificationReplies,
          max_results \in ResultBudgets :
          inv = <<[Invocation(user_query) EXCEPT
                     !.classification =
                         Forced(user_query, classify_query(user_query, Returned(reply))),
                     !.main = Frame("retrieve", max_results)]>>
    /\ ready = <<>>
    /\ running = Task(1, "main")

NextVector ==
    \/ Dispatch
    \/ \E i \in DOMAIN inv : Retrieve(i)
    \/ \E i \in DOMAIN inv : HybridSpawn(i)
    \/ \E i \in DOMAIN inv : HybridGather(i)
    \/ \E i \in DOMAIN inv, f \in Frames : SqlGenerate(i, f)
    \/ \E i \in DOMAIN inv, f \in Frames : SqlCount(i, f)
    \/ \E i \in DOMAIN inv, f \in Frames : SqlExecute(i, f)
    \/ \E i \in DOMAIN inv, f \in Frames : VectorSearch(i, f)
    \/ \E i \in DOMAIN inv, f \in Frames : VectorAdditional(i, f)
    \/ \E i \in DOMAIN inv, f \in Frames : VectorReturn(i, f)

\* _retrieve_data applied to one classified query
SpecVector == InitVector /\ [][NextVector]_vars

\* the hits a retrieval of invocation i has returned are within its budget
WithinBudget(i) ==
    /\ inv[i].main.pc = "stats" /\ inv[i].classification.query_type # HYBRID_RETRIEVAL
          => Len(inv[i].retrieved_data.vector_results) <= inv[i].main.max_results
    /\ \A f \in {"sql", "vec"} :
          inv[i][f].pc = "done"
             => Len(Get(inv[i][f].data, "vector_results", <<>>)) <= inv[i][f].max_results

\* C23: the vector path returns no more hits than the budget it was called
\* with, a budget of 0 included, also when the searches by parameter and by
\* region contribute hits
C23_WithinBudget == \A i \in DOMAIN inv : WithinBudget(i)

\* C23 for the budgets of at least 1
C23_WithinPositiveBudget ==
    \A i \in DOMAIN inv : inv[i].main.max_results \div 2 >= 1 => WithinBudget(i)

\* a vector path with supplementary hits has cut them at its budget
C23_Witness ==
    \E i \in DOMAIN inv :
       /\ inv[i].vec.pc = "done"
       /\ inv[i].vec.max_results = 1
       /\ Len(Get(inv[i].vec.data, "vector_results", <<>>)) = 1
       /\ AdditionalSearches(inv[i].classification) # <<>>

\* the region recognized in a query: the first one a keyword of which the query contains
Recognized(query) ==
    {k \in DOMAIN regions : ContainsAny(Lower(query), regions[k].keywords)}

\* the broader rectangles of a region
BroaderOf(region) ==
    {k \in DOMAIN broader_regions : broader_regions[k].key = region.name}

\* the hits whose coordinates lie inside a rectangle
Inside(hits, rectangle) ==
    LET In(hit) == HasCoordinates(hit) /\ InBounds(rectangle, hit.metadata)
    IN  Filter(hits, In)

\* the hits the tight rectangle keeps: those inside it and those without coordinates
Tight(hits, rectangle) ==
    LET In(hit) == ~HasCoordinates(hit) \/ InBounds(rectangle, hit.metadata)
    IN  Filter(hits, In)

\* each hit annotated with the broadened note
Annotated(hits, rectangle) ==
    [k \in DOMAIN hits |-> WithNote(hits[k], rectangle.name)]

\* frame f of invocation i holds the hits the geographic filter has returned
\* for the hits of the semantic search
Filtered(i, f) ==
    /\ inv[i][f].pc = "vector_additional"
    /\ <<"semantic_search", inv[i].user_query, NatStr(inv[i][f].max_results)>> \in DOMAIN memo
    /\ memo[<<"semantic_search", inv[i].user_query, NatStr(inv[i][f].max_results)>>].ok

\* the filter has returned the hits inside the broader rectangle of the region, annotated
Broadened(i, f, region) ==
    \A k \in BroaderOf(region) :
       inv[i][f].vector_results =
          Annotated(Inside(memo[<<"semantic_search", inv[i].user_query,
                                  NatStr(inv[i][f].max_results)>>].v,
                           broader_regions[k]),
                    broader_regions[k])

\* the tight rectangle of the region recognized in the query of invocation i
\* keeps none of the hits, and the region has a broader rectangle
NoneInRegion(i, f) ==
    /\ Filtered(i, f)
    /\ Recognized(inv[i].user_query) # {}
    /\ BroaderOf(regions[SetMin(Recognized(inv[i].user_query))]) # {}
    /\ Tight(memo[<<"semantic_search", inv[i].user_query, NatStr(inv[i][f].max_results)>>].v,
             regions[SetMin(Recognized(inv[i].user_query))]) = <<>>

\* C24: when a region with a broader rectangle is recognized by any of its
\* keywords and its tight rectangle keeps no hit, the geographic filter
\* returns exactly the hits inside the broader rectangle, each with the note
C24_Broadened ==
    \A i \in DOMAIN inv, f \in Frames :
       NoneInRegion(i, f)
          => Broadened(i, f, regions[SetMin(Recognized(inv[i].user_query))])

\* C24 for the queries that contain the name of the region
C24_BroadenedWhenNamed ==
    \A i \in DOMAIN inv, f \in Frames :
       /\ NoneInRegion(i, f)
       /\ Contains(Lower(inv[i].user_query),
                   regions[SetMin(Recognized(inv[i].user_query))].name)
       => Broadened(i, f, regions[SetMin(Recognized(inv[i].user_query))])

\* the filter has broadened the search of a query that names its region
C24_Witness ==
    \E i \in DOMAIN inv, f \in Frames :
       /\ NoneInRegion(i, f)
       /\ Contains(Lower(inv[i].user_query),
                   regions[SetMin(Recognized(inv[i].user_query))].name)
       /\ inv[i][f].vector_results # <<>>

\* invocation i holds the classification classify_query returned, and the
\* LLM call of the classifier gave no completion
ClassifiedWithoutLLM(i) ==
    /\ inv[i].main.pc \in {"coverage", "force"}
    /\ <<"classify_query_type", inv[i].user_query>> \in inv[i].calls
    /\ <<"classify_query_type", inv[i].user_query>> \in DOMAIN memo
    /\ ~memo[<<"classify_query_type", inv[i].user_query>>].ok

\* C25: when the LLM call of the classifier fails and the geographic fast path
\* did not fire, classify_query returns vector retrieval with a confidence of
\* at most 0.5, whatever the rules score
C25_LowConfidenceVector ==
    \A i \in DOMAIN inv :
       ClassifiedWithoutLLM(i)
          => /\ inv[i].classification.query_type = VECTOR_RETRIEVAL
             /\ inv[i].classification.confidence <= 50

\* C25 without the bound on the confidence
C25_Vector ==
    \A i \in DOMAIN inv :
       ClassifiedWithoutLLM(i) => inv[i].classification.query_type = VECTOR_RETRIEVAL

(***************************************************************************)
(* The classification of one query                                         *)
(***************************************************************************)

\* process_query at line 36, for a query whose classification is fused
InitFuse ==
    /\ scenario = "single"
    /\ rag_pipeline = NoAttributes
    /\ memo = <<>>
    /\ faults = 0
    /\ \E user_query \in FusedQueries : inv = <<Invocation(user_query)>>
    /\ ready = <<>>
    /\ running = Task(1, "main")

NextFuse == \E i \in DOMAIN inv : Classify(i)

\* classify_query applied to one query
SpecFuse == InitFuse /\ [][NextFuse]_vars

\* the values of a list
Values(list) == {list[k] : k \in DOMAIN list}

\* the kinds of entities both the patterns and the LLM produce
entity_kinds == {"parameters", "regions"}

\* invocation i holds the classification fused from the rules and the reply of the LLM
Fused(i) ==
    /\ inv[i].main.pc = "coverage"
    /\ <<"classify_query_type", inv[i].user_query>> \in inv[i].calls
    /\ <<"classify_query_type", inv[i].user_query>> \in DOMAIN memo
    /\ memo[<<"classify_query_type", inv[i].user_query>>].ok

\* the fused entities of a kind hold the values of the patterns and of the LLM
UnionOf(i, kind) ==
    Values(_extract_entities(inv[i].user_query)[kind])
       \cup Values(memo[<<"classify_query_type", inv[i].user_query>>].v.extracted_entities[kind])
    \subseteq Values(inv[i].classification.extracted_entities[kind])

\* C26: the entities of a fused classification are the union of the entities
\* the patterns extract and the entities the LLM extracts, for every kind
C26_EntitiesUnion ==
    \A i \in DOMAIN inv : Fused(i) => \A kind \in entity_kinds : UnionOf(i, kind)

\* C26 for the kinds of which the patterns extract nothing
C26_EntitiesOfOneSource ==
    \A i \in DOMAIN inv :
       Fused(i) => \A kind \in entity_kinds :
                      _extract_entities(inv[i].user_query)[kind] = <<>> => UnionOf(i, kind)

\* a classification fused from entities of both sources
C26_Witness ==
    \E i \in DOMAIN inv :
       /\ Fused(i)
       /\ _extract_entities(inv[i].user_query).parameters # <<>>
       /\ memo[<<"classify_query_type", inv[i].user_query>>].v.extracted_entities.parameters # <<>>

\* the backend a request of the gateway tried first
TriedFirst(g) == IF Len(g.providers) >= 1 THEN g.providers[1][1] ELSE None

\* C27: for a query that mentions none of the keywords and whose prompt is not
\* above the token limit, the gateway tries Groq first, whatever the system
\* prompt of the request contains (the prompts of the repeated queries stay
\* under the limit)
C27_GroqFirst ==
    \A i \in DOMAIN inv :
       scenario # "single" /\ ~ContainsAny(Lower(inv[i].user_query), hf_keywords)
          => \A g \in inv[i].gateway : TriedFirst(g) \in {None, "groq.generate_response"}

\* C27 for the requests for the final response
C27_GroqFirstForFinal ==
    \A i \in DOMAIN inv :
       scenario # "single" /\ ~ContainsAny(Lower(inv[i].user_query), hf_keywords)
          => \A g \in inv[i].gateway :
                Len(g.providers) >= 1 /\ g.providers[1][2] # "sql"
                   => TriedFirst(g) = "groq.generate_response"

(***************************************************************************)
(* One query answered by the prose of the LLM                             *)
(***************************************************************************)

\* process_query at line 36, for a query of the LLM-prose branch
InitShape ==
    /\ scenario = "single"
    /\ rag_pipeline = NoAttributes
    /\ memo = <<>>
    /\ faults = 0
    /\ \E user_query \in ShapedQueries : inv = <<Invocation(user_query)>>
    /\ ready = <<>>
    /\ running = Task(1, "main")

NextShape ==
    \/ \E i \in DOMAIN inv : Classify(i)
    \/ \E i \in DOMAIN inv : Validate(i)
    \/ \E i \in DOMAIN inv : ForceSQL(i)
    \/ \E i \in DOMAIN inv : Retrieve(i)
    \/ \E i \in DOMAIN inv : VectorSearch(i, "main")
    \/ \E i \in DOMAIN inv : VectorAdditional(i, "main")
    \/ \E i \in DOMAIN inv : VectorReturn(i, "main")
    \/ \E i \in DOMAIN inv : Stats(i)
    \/ \E i \in DOMAIN inv : Respond(i)
    \/ \E i \in DOMAIN inv : Assemble(i)

\* process_query applied to one query of the LLM-prose branch
SpecShape == InitShape /\ [][NextShape]_vars

\* lines 387-389: the generic phrases
generic_phrases == {"query processed successfully", "no data found", "no data available"}

\* the requests for the final response the gateway got from invocation i
FinalRequests(i) ==
    {g \in inv[i].gateway : Len(g.providers) >= 1 /\ g.providers[1][2] = "final"}

\* the reply generate_final_response gave to a request: the completion of a
\* backend or, when both failed, what GroqLLMClient.generate_final_response gives
ReplyTo(i, g) ==
    IF g.outcome.ok THEN g.outcome.v
    ELSE IF <<"groq.generate_response", "final_groq", inv[i].user_query>> \in DOMAIN memo
    THEN groq_generate_final_response(
             memo[<<"groq.generate_response", "final_groq", inv[i].user_query>>])
    ELSE ""

\* invocation i has shaped its response in the LLM-prose branch
ShapedByLLM(i) ==
    /\ inv[i].main.pc \in {"assemble", "done"}
    /\ Formatter(inv[i].user_query, inv[i].retrieved_data) = "llm"
    /\ FinalRequests(i) # {}

\* the response of invocation i is the data-based one
IsDataResponse(i) ==
    LET data_response == _generate_data_response(inv[i].user_query, inv[i].retrieved_data,
                                                 inv[i].classification.query_type, inv[i].seen)
    IN  data_response.ok /\ inv[i].final_response = Text(data_response.v)

\* C28: in the LLM-prose branch a reply of 50 or more characters without a
\* generic phrase is returned as the answer
C28_FiftyOrMore ==
    \A i \in DOMAIN inv :
       ShapedByLLM(i)
          => \A g \in FinalRequests(i) :
                /\ Len(ReplyTo(i, g)) >= 50
                /\ ~ContainsAny(Lower(ReplyTo(i, g)), generic_phrases)
                => inv[i].final_response = Text(ReplyTo(i, g))

\* C28, amended: in the LLM-prose branch the response is the data-based one
\* exactly when the reply of the LLM is empty, contains a generic phrase or has
\* at most 50 characters; a reply of more than 50 characters without a generic
\* phrase is returned as the answer
C28_MoreThanFifty ==
    \A i \in DOMAIN inv :
       ShapedByLLM(i)
          => \A g \in FinalRequests(i) :
                IF \/ ReplyTo(i, g) = ""
                   \/ ContainsAny(Lower(ReplyTo(i, g)), generic_phrases)
                   \/ Len(ReplyTo(i, g)) <= 50
                THEN IsDataResponse(i)
                ELSE inv[i].final_response = Text(ReplyTo(i, g))

\* a reply of exactly 50 characters was replaced by the data-based response
C28_Witness ==
    \E i \in DOMAIN inv :
       /\ ShapedByLLM(i)
       /\ \E g \in FinalRequests(i) : ReplyTo(i, g) = Reply50
       /\ IsDataResponse(i)
       /\ inv[i].final_response # Text(Reply50)

(***************************************************************************)
(* One query about a float                                                 *)
(***************************************************************************)

\* process_query at line 36, for a query about a float in a year
InitFloat ==
    /\ scenario = "single"
    /\ rag_pipeline = NoAttributes
    /\ memo = <<>>
    /\ faults = 0
    /\ \E user_query \in DatedFloatQueries : inv = <<Invocation(user_query)>>
    /\ ready = <<>>
    /\ running = Task(1, "main")

NextFloat ==
    \/ \E i \in DOMAIN inv : Classify(i)
    \/ \E i \in DOMAIN inv : Validate(i)
    \/ \E i \in DOMAIN inv : ForceSQL(i)
    \/ \E i \in DOMAIN inv : Retrieve(i)
    \/ \E i \in DOMAIN inv : SqlGenerate(i, "main")
    \/ \E i \in DOMAIN inv : SqlCount(i, "main")
    \/ \E i \in DOMAIN inv : SqlExecute(i, "main")
    \/ \E i \in DOMAIN inv : VectorSearch(i, "main")
    \/ \E i \in DOMAIN inv : VectorAdditional(i, "main")
    \/ \E i \in DOMAIN inv : VectorReturn(i, "main")
    \/ \E i \in DOMAIN inv : Stats(i)
    \/ \E i \in DOMAIN inv : Respond(i)
    \/ \E i \in DOMAIN inv : Assemble(i)

\* process_query applied to one query about a float
SpecFloat == InitFloat /\ [][NextFloat]_vars

\* the answer states that the float does not exist in the database
StatesAbsent(answer, float_id) ==
    Contains(answer, "Float " \o float_id \o " does not exist in the ARGO database")

\* C29: when the answer states that float F does not exist in the database,
\* the store holds no profile of F
C29_AbsentWhenStated ==
    \A i \in DOMAIN inv :
       /\ Done(i) /\ Assembled(inv[i].result)
       /\ ExtractFloatId(inv[i].user_query) # None
       /\ StatesAbsent(AnswerOf(inv[i].result), ExtractFloatId(inv[i].user_query))
       => ~StoreHolds(ExtractFloatId(inv[i].user_query))

\* C29 for the answers to a query for which no row and no hit was retrieved
C29_AbsentWhenNothingRetrieved ==
    \A i \in DOMAIN inv :
       /\ Done(i) /\ Assembled(inv[i].result)
       /\ ExtractFloatId(inv[i].user_query) # None
       /\ Formatter(inv[i].user_query, inv[i].retrieved_data) = "no_results"
       /\ StatesAbsent(AnswerOf(inv[i].result), ExtractFloatId(inv[i].user_query))
       => ~StoreHolds(ExtractFloatId(inv[i].user_query))

(***************************************************************************)
(* RAGPipeline.health_check (rag_pipeline.py, lines 1219-1247)             *)
(***************************************************************************)

\* line 1237: the query of the test classification
health_query == "test query"

\* db_manager.test_connection() and vector_db_manager.get_collection_stats()
ConnectionCalls == [call \in {<<"test_connection">>} |-> BOOLEAN]
CollectionCalls ==
    [call \in {<<"get_collection_stats">>} |-> {[total_documents |-> 0], [total_documents |-> 3]}]

\* the completions of a backend to the classification prompt: a JSON object
\* with a query type, an empty JSON object, and prose
ClassifierCompletions ==
    {"{\"query_type\": \"sql_retrieval\"}", "{}", "This query is about ARGO buoys."}

\* json.loads of a completion: the objects with at most the key query_type
json_prefix == "{\"query_type\": \""
json_loads(text) ==
    IF text = "{}" THEN Returned(<<>>)
    ELSE IF /\ StartsWith(text, json_prefix)
            /\ Len(text) >= Len(json_prefix) + 2
            /\ SubSeq(text, Len(text) - 1, Len(text)) = "\"}"
            /\ ~Contains(SubSeq(text, Len(json_prefix) + 1, Len(text) - 2), "\"")
    THEN Returned([query_type |-> SubSeq(text, Len(json_prefix) + 1, Len(text) - 2)])
    ELSE Raised("Expecting value: line 1 column 1 (char 0)")

\* multi_llm_client.py, lines 172-175: the messages of the classification
classification_prompt(user_query) ==
    user_query
    \o "\nClassify oceanographic queries into sql_retrieval, vector_retrieval, or hybrid_retrieval and extract entities as JSON."
    \o "\nClassify this oceanographic query: " \o user_query

\* multi_llm_client.py, lines 171-184: the calls of the backends
\* classify_query_type can make: those of generate_response and, last, that
\* of GroqLLMClient.classify_query_type
ClassificationCalls(user_query, long) ==
    Append(ProviderCalls("classify", user_query, classification_prompt(user_query), long),
           BackendCall("groq", "classify_groq", user_query))

\* llm_client.py, lines 106-127: GroqLLMClient.classify_query_type
GroqLLMClient_classify_query_type(completion) ==
    IF ~completion.ok THEN [query_type |-> VECTOR_RETRIEVAL, confidence |-> 30]
    ELSE IF json_loads(completion.v).ok THEN json_loads(completion.v).v
    ELSE [query_type |-> VECTOR_RETRIEVAL, confidence |-> 50]

\* multi_llm_client.py, lines 176-178: the completion of generate_response, parsed
ParsedCompletion(completion) ==
    IF completion.ok THEN json_loads(completion.v) ELSE completion

\* the backend of the second call is asked when the first one raised, and
\* GroqLLMClient.classify_query_type when generate_response raised or its
\* completion is not JSON
ClassificationAttempts(chain) ==
    UNION {{a \in Answers([c \in calls |-> ClassifierCompletions]) :
              /\ chain[2] \in calls <=> ~a[chain[1]].ok
              /\ chain[3] \in calls <=>
                    ~ParsedCompletion(IF a[chain[1]].ok THEN a[chain[1]] ELSE a[chain[2]]).ok} :
           calls \in {s \in SUBSET {chain[k] : k \in DOMAIN chain} : chain[1] \in s}}

\* multi_llm_client.py, lines 171-184: classify_query_type raises nothing
MultiLLMClient_classify_query_type(chain, a) ==
    IF ParsedCompletion(IF a[chain[1]].ok THEN a[chain[1]] ELSE a[chain[2]]).ok
    THEN ParsedCompletion(IF a[chain[1]].ok THEN a[chain[1]] ELSE a[chain[2]])
    ELSE Returned(GroqLLMClient_classify_query_type(a[chain[3]]))

\* lines 1221-1226
health ==
    [database |-> FALSE, vector_db |-> FALSE, llm |-> FALSE, overall |-> FALSE]

\* lines 1243-1245: the except clause
health_except(flags, e) ==
    [k \in DOMAIN flags \cup {"error"} |-> IF k = "error" THEN e ELSE flags[k]]

\* lines 1229-1230: the database flag
HealthDatabase(i) ==
    /\ Runs(i, "main", "health_database")
    /\ \E a \in Answers(ConnectionCalls) :
         /\ Heard(a)
         /\ inv' = [inv EXCEPT
                      ![i].result = IF Only(a).ok THEN [@ EXCEPT !.database = Only(a).v]
                                    ELSE health_except(@, Only(a).e),
                      ![i].calls = @ \cup DOMAIN a,
                      ![i].main.pc = IF Only(a).ok THEN "health_vector" ELSE "done"]
    /\ UNCHANGED <<scenario, rag_pipeline, ready, running>>

\* lines 1232-1234: the vector-store flag
HealthVector(i) ==
    /\ Runs(i, "main", "health_vector")
    /\ \E a \in Answers(CollectionCalls) :
         /\ Heard(a)
         /\ inv' = [inv EXCEPT
                      ![i].result =
                          IF Only(a).ok
                          THEN [@ EXCEPT !.vector_db = Get(Only(a).v, "total_documents", 0) > 0]
                          ELSE health_except(@, Only(a).e),
                      ![i].calls = @ \cup DOMAIN a,
                      ![i].main.pc = IF Only(a).ok THEN "health_llm" ELSE "done"]
    /\ UNCHANGED <<scenario, rag_pipeline, ready, running>>

\* lines 1236-1241: the flags after the test classification
WithLLM(flags, test_result) ==
    IF test_result.ok
    THEN [flags EXCEPT
            !.llm = Get(test_result.v, "query_type", None) \notin {None, ""},
            !.overall = /\ flags.database /\ flags.vector_db
                        /\ Get(test_result.v, "query_type", None) \notin {None, ""}]
    ELSE health_except(flags, test_result.e)

\* lines 1236-1241: the LLM flag and the overall flag; health_check returns
HealthLLM(i) ==
    /\ Runs(i, "main", "health_llm")
    /\ \E long \in Overlong :
         \E a \in ClassificationAttempts(ClassificationCalls(health_query, long)) :
            /\ Heard(a)
            /\ inv' = [inv EXCEPT
                         ![i].result =
                             WithLLM(@, MultiLLMClient_classify_query_type(
                                            ClassificationCalls(health_query, long), a)),
                         ![i].calls = @ \cup DOMAIN a,
                         ![i].main.pc = "done"]
    /\ UNCHANGED <<scenario, rag_pipeline, ready, running>>

\* health_check at its first line
InitHealth ==
    /\ scenario = "single"
    /\ rag_pipeline = NoAttributes
    /\ memo = <<>>
    /\ faults = 0
    /\ inv = <<[Invocation(health_query) EXCEPT !.main.pc = "health_database", !.result = health]>>
    /\ ready = <<>>
    /\ running = Task(1, "main")

NextHealth ==
    \/ \E i \in DOMAIN inv : HealthDatabase(i)
    \/ \E i \in DOMAIN inv : HealthVector(i)
    \/ \E i \in DOMAIN inv : HealthLLM(i)

\* one health_check
SpecHealth == InitHealth /\ [][NextHealth]_vars

\* health_check has returned its flags
Checked(i) == inv[i].main.pc = "done" /\ inv[i].user_query = health_query

\* the backends health_check asked, none of which gave a completion
NoCompletion(i) ==
    /\ \E c \in inv[i].calls : c[1] \in {"groq.generate_response", "hf.generate"}
    /\ \A c \in inv[i].calls :
          c[1] \in {"groq.generate_response", "hf.generate"} => c \in DOMAIN memo /\ ~memo[c].ok

\* health_check returns its four flags, and overall is true only when the
\* other three are
FlagsReturned(i) ==
    /\ {"database", "vector_db", "llm", "overall"} \subseteq DOMAIN inv[i].result
    /\ inv[i].result.overall
          => inv[i].result.database /\ inv[i].result.vector_db /\ inv[i].result.llm

\* C30: health_check never raises, reports overall true only when the
\* database, vector-store and LLM flags are all true, and reports the LLM flag
\* false, hence overall false, whenever no LLM provider returns a completion
\* for the test classification
C30_HealthCheck ==
    \A i \in DOMAIN inv :
       Checked(i)
          => /\ FlagsReturned(i)
             /\ NoCompletion(i) => ~inv[i].result.llm /\ ~inv[i].result.overall

\* C30 without its last part
C30_OverallOnlyWhenAll == \A i \in DOMAIN inv : Checked(i) => FlagsReturned(i)

\* a health_check that reports every component healthy
C30_Witness ==
    \E i \in DOMAIN inv : Checked(i) /\ FlagsReturned(i) /\ inv[i].result.overall

====
